---- MODULE Spec2Model ----
(***************************************************************************)
(* State-machine model of the QSL card generator's session-based server    *)
(* (users / sessions / audit_log in SQLite, callsigns.json, card files)    *)
(* and of its bootstrap CLI.  Every HTTP handler is one action per         *)
(* synchronous run of its code: a handler without an await is one atomic   *)
(* action, a handler with awaits is split at the await.                    *)
(***************************************************************************)
EXTENDS Integers, Sequences, FiniteSets, TLC

(***************************************************************************)
(* Bounds of the model.                                                    *)
(***************************************************************************)
MaxUsers == 3
MaxTokens == 2
MaxHashes == 4
MaxInflight == 2
TicksPerDay == 2
ExtraDays == 1
LoginDays == 1
MaxAudit == 2

(***************************************************************************)
(* Program constants.                                                      *)
(***************************************************************************)
SESSION_TTL_DAYS == 7
MIN_PASSWORD_LENGTH == 8

VARIABLES
  users,        \* table users: set of rows
  nextUserId,   \* AUTOINCREMENT counter of users.id
  sessions,     \* table sessions: set of rows
  nextToken,    \* next value generateToken() draws (tokens never repeat)
  nextSalt,     \* next salt bcrypt draws (salts never repeat)
  foreign_keys, \* whether the SQLite build enforces FOREIGN KEY clauses
  auditWritable,\* whether an INSERT INTO audit_log succeeds (no I/O or lock error)
  clock,        \* wall clock, in ticks
  reqs,         \* suspended async handlers, one per slot
  last,         \* the response most recently sent
  callsigns,    \* data/callsigns.json: the array data.callsigns
  files,        \* data/cards: the paths that exist
  audit,        \* table audit_log, in insertion order
  verified,     \* history: the password hash each login verified, by token
  pwChanges,    \* history: change-password requests that have responded
  plain,        \* history: the password each user's stored hash was made from
  acked,        \* history: the last acknowledged change of each callsign id
  currentLang,  \* i18n module in a browser page: let currentLang
  translations, \* i18n: let translations
  initialized,  \* i18n: let initialized
  localStorage, \* the item qsl_language of the page's localStorage
  browserLang,  \* navigator.language up to the first "-"
  calls,        \* i18n: async calls suspended in loadLocale, one per slot
  returned      \* i18n: the value the call that finished last resolved to

vars == <<users, nextUserId, sessions, nextToken, nextSalt, foreign_keys, auditWritable,
          clock, reqs, last, callsigns, files, audit, verified, pwChanges,
          plain, acked, currentLang, translations, initialized, localStorage,
          browserLang, calls, returned>>

storeVars == <<callsigns, files, audit, acked>>
histVars == <<verified, pwChanges, plain>>
pageVars == <<currentLang, translations, initialized, localStorage, browserLang, calls,
              returned>>
envVars == <<foreign_keys, auditWritable, clock, pageVars>>

(***************************************************************************)
(* Strings.  A string is a sequence of characters over a small alphabet    *)
(* with both cases; <<>> stands for a falsy value ("" / null / missing).   *)
(***************************************************************************)
NULL == <<>>

Lower(c) == CASE c = "A" -> "a" [] c = "B" -> "b" [] c = "X" -> "x"
              [] c = "Y" -> "y" [] c = "F" -> "f" [] OTHER -> c

RECURSIVE toLowerCase(_)
toLowerCase(s) == IF s = <<>> THEN <<>>
                  ELSE <<Lower(Head(s))>> \o toLowerCase(Tail(s))

RECURSIVE Rep(_, _)
Rep(c, n) == IF n = 0 THEN <<>> ELSE <<c>> \o Rep(c, n - 1)

UsernameInputs == {<<"a">>, <<"A">>, <<"b">>}
CallsignInputs == {<<"x">>, <<"X">>, <<"y">>}
PasswordInputs == {Rep("p", MIN_PASSWORD_LENGTH), Rep("q", MIN_PASSWORD_LENGTH)}

(***************************************************************************)
(* bcrypt: a hash carries its salt; compare re-derives with that salt.     *)
(* bcrypt reads only the first 72 bytes of the password.                   *)
(***************************************************************************)
TooShort_OffByOne(password) == Len(password) + 1 < MIN_PASSWORD_LENGTH

TooShort(password) == Len(password) < MIN_PASSWORD_LENGTH

BCRYPT_MAX_BYTES == 72
Truncate(password) ==
  IF Len(password) > BCRYPT_MAX_BYTES THEN SubSeq(password, 1, BCRYPT_MAX_BYTES)
  ELSE password

bcryptHash(password, salt) == [pw |-> Truncate(password), salt |-> salt]
bcryptCompare(password, hash) == hash.pw = Truncate(password)

SetPlain(userId, password) ==
  {p \in plain : p.user_id # userId} \cup {[user_id |-> userId, password |-> password]}

(***************************************************************************)
(* Time.  The clock counts ticks, TicksPerDay to the day.  The two text    *)
(* formats the code stores and compares are kept apart:                    *)
(*   Date.toISOString()  "YYYY-MM-DDTHH:MM:SS.sssZ"                        *)
(*   SQLite datetime()   "YYYY-MM-DD HH:MM:SS"                             *)
(* and TEXT values compare bytewise, left to right.                        *)
(***************************************************************************)
SessionTtl == SESSION_TTL_DAYS * TicksPerDay
Horizon == (SESSION_TTL_DAYS + ExtraDays) * TicksPerDay

toISOString(t) == [date |-> t \div TicksPerDay, sep |-> "T", time |-> t % TicksPerDay]
datetime(t) == [date |-> t \div TicksPerDay, sep |-> " ", time |-> t % TicksPerDay]
TimeOf(text) == text.date * TicksPerDay + text.time

CharCode(c) == IF c = " " THEN 32 ELSE 84

TextGreater(a, b) ==
  \/ a.date > b.date
  \/ a.date = b.date /\ CharCode(a.sep) > CharCode(b.sep)
  \/ a.date = b.date /\ a.sep = b.sep /\ a.time > b.time

TextLess(a, b) == TextGreater(b, a)

(***************************************************************************)
(* Tables.                                                                 *)
(***************************************************************************)
NoToken == 0 - 1
BogusToken == MaxTokens + 1
Tokens == 1..MaxTokens
NoSession == [found |-> FALSE]

UserRows(id) == {u \in users : u.id = id}
UsersNamed(name) == {u \in users : u.username = name}
UsersWithCallsign(cs) == {u \in users : u.callsign = cs}

Respond(op, status, body, req, out) ==
  [op |-> op, status |-> status, body |-> body, req |-> req, out |-> out]

NoResponse == Respond("none", 0, "", [a |-> 0], [a |-> 0])
Idle == [pc |-> "idle"]
Slots == 1..MaxInflight
Pending(pc) == Cardinality({i \in Slots : reqs[i].pc = pc})

generateToken == nextToken

createSession(userId, token) ==
  [token |-> token, user_id |-> userId,
   created_at |-> datetime(clock),
   expires_at |-> toISOString(clock + SessionTtl)]

\* the account made by the init-admin script counts as admin whatever its row says
validateSession_CliAdmin(token) ==
  IF token = NoToken THEN NoSession
  ELSE LET rows == {[found |-> TRUE, token |-> s.token, user_id |-> s.user_id,
                     created_at |-> s.created_at, expires_at |-> s.expires_at,
                     username |-> u.username, callsign |-> u.callsign,
                     is_admin |-> u.is_admin \/ u.id = 1] :
                    <<s, u>> \in {p \in sessions \X users :
                                    /\ p[1].token = token
                                    /\ p[1].user_id = p[2].id
                                    /\ TextGreater(p[1].expires_at, datetime(clock))}}
       IN IF rows = {} THEN NoSession ELSE CHOOSE r \in rows : TRUE

validateSession(token) ==
  IF token = NoToken THEN NoSession
  ELSE LET rows == {[found |-> TRUE, token |-> s.token, user_id |-> s.user_id,
                     created_at |-> s.created_at, expires_at |-> s.expires_at,
                     username |-> u.username, callsign |-> u.callsign,
                     is_admin |-> u.is_admin] :
                    <<s, u>> \in {p \in sessions \X users :
                                    /\ p[1].token = token
                                    /\ p[1].user_id = p[2].id
                                    /\ TextGreater(p[1].expires_at, datetime(clock))}}
       IN IF rows = {} THEN NoSession ELSE CHOOSE r \in rows : TRUE

cleanExpiredSessions ==
  /\ sessions' = {s \in sessions : ~TextLess(s.expires_at, datetime(clock))}
  /\ last' = NoResponse
  /\ UNCHANGED <<users, nextUserId, nextToken, nextSalt, reqs>>
  /\ UNCHANGED <<envVars, storeVars, histVars>>

Tick ==
  /\ clock < Horizon
  /\ clock' = clock + 1
  /\ last' = NoResponse
  /\ UNCHANGED <<users, nextUserId, sessions, nextToken, nextSalt, reqs>>
  /\ UNCHANGED <<foreign_keys, auditWritable, pageVars, storeVars, histVars>>

Unauthorized(op, req) == Respond(op, 401, "Unauthorized", req, [a |-> 0])

(***************************************************************************)
(* scripts/create-admin.js: the bootstrap CLI, a process of its own on the *)
(* same database; it hashes synchronously.                                 *)
(***************************************************************************)
CreateAdminCli(username, password) ==
  /\ nextUserId <= MaxUsers
  /\ nextSalt <= MaxHashes
  /\ LET req == [username |-> username, password |-> password] IN
     IF username = NULL \/ password = NULL \/ TooShort(password)
        \/ UsersNamed(toLowerCase(username)) # {}
     THEN /\ last' = Respond("create-admin", 1, "exit", req, [a |-> 0])
          /\ UNCHANGED <<users, nextUserId, nextSalt, plain>>
     ELSE /\ users' = users \cup
                {[id |-> nextUserId, username |-> toLowerCase(username),
                  password_hash |-> bcryptHash(password, nextSalt),
                  callsign |-> NULL, is_admin |-> TRUE, last_login |-> NULL]}
          /\ nextUserId' = nextUserId + 1
          /\ nextSalt' = nextSalt + 1
          /\ plain' = SetPlain(nextUserId, password)
          /\ last' = Respond("create-admin", 0, "created", req, [a |-> 0])
  /\ UNCHANGED <<sessions, nextToken, reqs, envVars, storeVars, verified, pwChanges>>

(***************************************************************************)
(* POST /api/auth/login                                                    *)
(***************************************************************************)
UnknownUser_Told(req) == Respond("login", 404, "User not found", req, [a |-> 0])

UnknownUser(req) == Respond("login", 401, "Invalid credentials", req, [a |-> 0])

WrongPassword(req) == Respond("login", 401, "Invalid credentials", req, [a |-> 0])

LoginLookup_CaseSensitive(username) == UsersNamed(username)

LoginLookup(username) == UsersNamed(toLowerCase(username))

LoginStart(i, username, password) ==
  /\ reqs[i] = Idle
  /\ nextToken + Pending("login") <= MaxTokens
  /\ LET req == [username |-> username, password |-> password]
         found == LoginLookup(username) IN
     IF username = NULL \/ password = NULL
     THEN /\ last' = Respond("login", 400, "Username and password required", req, [a |-> 0])
          /\ UNCHANGED reqs
     ELSE IF found = {}
     THEN /\ last' = UnknownUser(req)
          /\ UNCHANGED reqs
     ELSE /\ reqs' = [reqs EXCEPT ![i] =
                        [pc |-> "login", req |-> req, user |-> CHOOSE u \in found : TRUE]]
          /\ UNCHANGED last
  /\ UNCHANGED <<users, nextUserId, sessions, nextToken, nextSalt>>
  /\ UNCHANGED <<envVars, storeVars, histVars>>

LoginResume(i) ==
  /\ reqs[i].pc = "login"
  /\ reqs' = [reqs EXCEPT ![i] = Idle]
  /\ LET r == reqs[i]
         user == r.user
         token == generateToken IN
     IF ~bcryptCompare(r.req.password, user.password_hash)
     THEN /\ last' = WrongPassword(r.req)
          /\ UNCHANGED <<users, sessions, nextToken, verified>>
     ELSE /\ users' = {IF u.id = user.id
                       THEN [u EXCEPT !.last_login = toISOString(clock)]
                       ELSE u : u \in users}
          /\ nextToken' = nextToken + 1
          /\ IF foreign_keys /\ UserRows(user.id) = {}
             THEN \* INSERT fails on the FOREIGN KEY: the async handler rejects
                  /\ last' = Respond("login", 0, "unhandled rejection", r.req, [a |-> 0])
                  /\ UNCHANGED <<sessions, verified>>
             ELSE /\ sessions' = sessions \cup {createSession(user.id, token)}
                  /\ verified' = verified \cup
                       {[token |-> token, hash |-> user.password_hash]}
                  /\ last' = Respond("login", 200, "ok", r.req,
                                     [token |-> token, username |-> user.username,
                                      callsign |-> user.callsign,
                                      isAdmin |-> user.is_admin])
  /\ UNCHANGED <<nextUserId, nextSalt, pwChanges, plain, envVars, storeVars>>

(***************************************************************************)
(* POST /api/auth/logout, GET /api/auth/me                                 *)
(***************************************************************************)
Logout_EverySession(token) ==
  /\ LET req == [token |-> token]
         session == validateSession(token) IN
     IF session = NoSession
     THEN /\ last' = Unauthorized("logout", req)
          /\ UNCHANGED sessions
     ELSE /\ sessions' = {s \in sessions : s.user_id # session.user_id}
          /\ last' = Respond("logout", 200, "ok", req, [success |-> TRUE])
  /\ UNCHANGED <<users, nextUserId, nextToken, nextSalt, reqs>>
  /\ UNCHANGED <<envVars, storeVars, histVars>>

Logout(token) ==
  /\ LET req == [token |-> token]
         session == validateSession(token) IN
     IF session = NoSession
     THEN /\ last' = Unauthorized("logout", req)
          /\ UNCHANGED sessions
     ELSE /\ sessions' = {s \in sessions : s.token # token}
          /\ last' = Respond("logout", 200, "ok", req, [success |-> TRUE])
  /\ UNCHANGED <<users, nextUserId, nextToken, nextSalt, reqs>>
  /\ UNCHANGED <<envVars, storeVars, histVars>>

Me_Renews(token) ==
  /\ LET req == [token |-> token]
         session == validateSession(token) IN
     IF session = NoSession
     THEN last' = Unauthorized("me", req) /\ UNCHANGED sessions
     ELSE /\ sessions' = {IF s.token = token
                          THEN [s EXCEPT !.expires_at = toISOString(clock + SessionTtl)]
                          ELSE s : s \in sessions}
          /\ last' = Respond("me", 200, "ok", req,
                             [username |-> session.username,
                              callsign |-> session.callsign,
                              isAdmin |-> session.is_admin])
  /\ UNCHANGED <<users, nextUserId, nextToken, nextSalt, reqs>>
  /\ UNCHANGED <<envVars, storeVars, histVars>>

Me(token) ==
  /\ LET req == [token |-> token]
         session == validateSession(token) IN
     IF session = NoSession
     THEN last' = Unauthorized("me", req)
     ELSE last' = Respond("me", 200, "ok", req,
                          [username |-> session.username,
                           callsign |-> session.callsign,
                           isAdmin |-> session.is_admin])
  /\ UNCHANGED <<users, nextUserId, sessions, nextToken, nextSalt, reqs>>
  /\ UNCHANGED <<envVars, storeVars, histVars>>

(***************************************************************************)
(* Middleware results shared by the admin routes.                          *)
(***************************************************************************)
AdminRequired(op, req) == Respond(op, 403, "Admin access required", req, [a |-> 0])
Rejected(op, req) == Respond(op, 0, "unhandled rejection", req, [a |-> 0])
Hashing == Pending("chpw") + Pending("create") + Pending("update")

(***************************************************************************)
(* POST /api/auth/change-password.  The handler awaits bcrypt.compare and  *)
(* then bcrypt.hash; it touches no shared state between the two, so both   *)
(* suspensions are one here.                                               *)
(***************************************************************************)
ChangePasswordStart(i, token, currentPassword, newPassword) ==
  /\ reqs[i] = Idle
  /\ nextSalt + Hashing <= MaxHashes
  /\ LET req == [token |-> token, currentPassword |-> currentPassword,
                 newPassword |-> newPassword]
         session == validateSession(token) IN
     IF session = NoSession
     THEN last' = Unauthorized("change-password", req) /\ UNCHANGED reqs
     ELSE IF currentPassword = NULL \/ newPassword = NULL
     THEN /\ last' = Respond("change-password", 400,
                             "Current and new password required", req, [a |-> 0])
          /\ UNCHANGED reqs
     ELSE IF TooShort(newPassword)
     THEN /\ last' = Respond("change-password", 400,
                             "Password must be at least 8 characters", req, [a |-> 0])
          /\ UNCHANGED reqs
     ELSE /\ reqs' = [reqs EXCEPT ![i] =
                        [pc |-> "chpw", req |-> req,
                         user |-> CHOOSE u \in UserRows(session.user_id) : TRUE]]
          /\ UNCHANGED last
  /\ UNCHANGED <<users, nextUserId, sessions, nextToken, nextSalt>>
  /\ UNCHANGED <<envVars, storeVars, histVars>>

RevokeOthers_AnyUser(userId, token) == {s \in sessions : s.token = token}

RevokeOthers(userId, token) ==
  {s \in sessions : ~(s.user_id = userId /\ s.token # token)}

ChangePasswordResume(i) ==
  /\ reqs[i].pc = "chpw"
  /\ reqs' = [reqs EXCEPT ![i] = Idle]
  /\ LET r == reqs[i]
         user == r.user IN
     IF ~bcryptCompare(r.req.currentPassword, user.password_hash)
     THEN /\ last' = Respond("change-password", 401,
                             "Current password is incorrect", r.req, [a |-> 0])
          /\ UNCHANGED <<users, sessions, nextSalt, pwChanges, plain>>
     ELSE /\ users' = {IF u.id = user.id
                       THEN [u EXCEPT !.password_hash =
                                        bcryptHash(r.req.newPassword, nextSalt)]
                       ELSE u : u \in users}
          /\ nextSalt' = nextSalt + 1
          /\ sessions' = RevokeOthers(user.id, r.req.token)
          /\ plain' = IF UserRows(user.id) = {} THEN plain
                       ELSE SetPlain(user.id, r.req.newPassword)
          /\ pwChanges' = pwChanges \cup
               {[user_id |-> user.id, oldHash |-> user.password_hash,
                 keep |-> r.req.token]}
          /\ last' = Respond("change-password", 200, "ok", r.req,
                             [user_id |-> user.id, before |-> sessions])
  /\ UNCHANGED <<nextUserId, nextToken, verified, envVars, storeVars>>

(***************************************************************************)
(* callsigns.json helpers                                                  *)
(***************************************************************************)
loadCallsigns == callsigns

FindIndex(list, id) ==
  LET hits == {k \in 1..Len(list) : toLowerCase(list[k].id) = id}
  IN IF hits = {} THEN 0 ELSE CHOOSE k \in hits : \A j \in hits : k <= j

getCallsignConfig(list, callsign) == FindIndex(list, toLowerCase(callsign))

(***************************************************************************)
(* POST /api/admin/users                                                   *)
(***************************************************************************)
CreateUserStart(i, token, username, password, callsign, isAdmin) ==
  /\ reqs[i] = Idle
  /\ nextSalt + Hashing <= MaxHashes
  /\ nextUserId + Pending("create") <= MaxUsers
  /\ LET req == [token |-> token, username |-> username, password |-> password,
                 callsign |-> callsign, isAdmin |-> isAdmin]
         session == validateSession(token)
         err(status, body) == /\ last' = Respond("create-user", status, body, req, [a |-> 0])
                              /\ UNCHANGED reqs IN
     IF session = NoSession
     THEN last' = Unauthorized("create-user", req) /\ UNCHANGED reqs
     ELSE IF ~session.is_admin
     THEN last' = AdminRequired("create-user", req) /\ UNCHANGED reqs
     ELSE IF username = NULL \/ password = NULL
     THEN err(400, "Username and password required")
     ELSE IF TooShort(password)
     THEN err(400, "Password must be at least 8 characters")
     ELSE IF UsersNamed(toLowerCase(username)) # {}
     THEN err(409, "Username already exists")
     ELSE IF callsign # NULL /\ getCallsignConfig(loadCallsigns, callsign) = 0
     THEN err(400, "Callsign does not exist. Create it first.")
     ELSE IF callsign # NULL /\ UsersWithCallsign(toLowerCase(callsign)) # {}
     THEN err(409, "Callsign already assigned to another user")
     ELSE /\ reqs' = [reqs EXCEPT ![i] = [pc |-> "create", req |-> req]]
          /\ UNCHANGED last
  /\ UNCHANGED <<users, nextUserId, sessions, nextToken, nextSalt>>
  /\ UNCHANGED <<envVars, storeVars, histVars>>

CreateUserResume(i) ==
  /\ reqs[i].pc = "create"
  /\ reqs' = [reqs EXCEPT ![i] = Idle]
  /\ nextSalt' = nextSalt + 1
  /\ LET r == reqs[i]
         row == [id |-> nextUserId, username |-> toLowerCase(r.req.username),
                 password_hash |-> bcryptHash(r.req.password, nextSalt),
                 callsign |-> toLowerCase(r.req.callsign),
                 is_admin |-> r.req.isAdmin, last_login |-> NULL] IN
     IF UsersNamed(row.username) # {}
     THEN \* INSERT fails on UNIQUE(username): the async handler rejects
          /\ last' = Rejected("create-user", r.req)
          /\ UNCHANGED <<users, nextUserId, plain>>
     ELSE /\ users' = users \cup {row}
          /\ nextUserId' = nextUserId + 1
          /\ plain' = SetPlain(nextUserId, r.req.password)
          /\ last' = Respond("create-user", 201, "created", r.req,
                             [id |-> row.id, username |-> row.username,
                              callsign |-> row.callsign, isAdmin |-> row.is_admin,
                              before |-> users])
  /\ UNCHANGED <<sessions, nextToken, envVars, storeVars, verified, pwChanges>>

(***************************************************************************)
(* PUT /api/admin/users/:id.  body.password = NULL: no (or an empty)       *)
(* password; hasCallsign / hasIsAdmin: the field is not undefined.         *)
(***************************************************************************)
AssignedToOther_AnyUser(callsign, userId) == {u \in users : u.callsign = callsign}

AssignedToOther(callsign, userId) ==
  {u \in users : u.callsign = callsign /\ u.id # userId}

UpdateUserTail(userId, body, req, hashed) ==
  LET setPw(us) == IF hashed
                   THEN {IF u.id = userId
                         THEN [u EXCEPT !.password_hash = bcryptHash(body.password, nextSalt)]
                         ELSE u : u \in us}
                   ELSE us
      setCs(us) == IF body.hasCallsign
                   THEN {IF u.id = userId
                         THEN [u EXCEPT !.callsign = toLowerCase(body.callsign)]
                         ELSE u : u \in us}
                   ELSE us
      setAdm(us) == IF body.hasIsAdmin
                    THEN {IF u.id = userId
                          THEN [u EXCEPT !.is_admin = body.isAdmin]
                          ELSE u : u \in us}
                    ELSE us
      assigned == AssignedToOther(toLowerCase(body.callsign), userId)
  IN /\ nextSalt' = IF hashed THEN nextSalt + 1 ELSE nextSalt
     /\ plain' = IF hashed /\ UserRows(userId) # {}
                 THEN SetPlain(userId, body.password) ELSE plain
     /\ IF body.hasCallsign /\ body.callsign # NULL /\ assigned # {}
        THEN /\ users' = setPw(users)
             /\ last' = Respond("update-user", 409,
                                "Callsign already assigned to another user", req,
                                [before |-> users])
        ELSE /\ users' = setAdm(setCs(setPw(users)))
             /\ IF UserRows(userId) = {}
                THEN last' = Rejected("update-user", req)
                ELSE last' = Respond("update-user", 200, "ok", req, [before |-> users])

UpdateUserStart(i, token, userId, body) ==
  /\ reqs[i] = Idle
  /\ nextSalt + Hashing <= MaxHashes
  /\ LET req == [token |-> token, id |-> userId, body |-> body]
         session == validateSession(token) IN
     IF session = NoSession
     THEN last' = Unauthorized("update-user", req) /\ UNCHANGED <<reqs, users, nextSalt, plain>>
     ELSE IF ~session.is_admin
     THEN last' = AdminRequired("update-user", req) /\ UNCHANGED <<reqs, users, nextSalt, plain>>
     ELSE IF UserRows(userId) = {}
     THEN /\ last' = Respond("update-user", 404, "User not found", req, [a |-> 0])
          /\ UNCHANGED <<reqs, users, nextSalt, plain>>
     ELSE IF body.password # NULL /\ TooShort(body.password)
     THEN /\ last' = Respond("update-user", 400,
                             "Password must be at least 8 characters", req, [a |-> 0])
          /\ UNCHANGED <<reqs, users, nextSalt, plain>>
     ELSE IF body.password # NULL
     THEN /\ reqs' = [reqs EXCEPT ![i] = [pc |-> "update", req |-> req]]
          /\ UNCHANGED <<last, users, nextSalt, plain>>
     ELSE /\ UpdateUserTail(userId, body, req, FALSE)
          /\ UNCHANGED reqs
  /\ UNCHANGED <<nextUserId, sessions, nextToken, envVars, storeVars, verified, pwChanges>>

UpdateUserResume(i) ==
  /\ reqs[i].pc = "update"
  /\ reqs' = [reqs EXCEPT ![i] = Idle]
  /\ UpdateUserTail(reqs[i].req.id, reqs[i].req.body, reqs[i].req, TRUE)
  /\ UNCHANGED <<nextUserId, sessions, nextToken, envVars, storeVars, verified, pwChanges>>

(***************************************************************************)
(* DELETE /api/admin/users/:id                                             *)
(***************************************************************************)
\* without the self-deletion guard
DeleteUser_NoSelfGuard(token, userId) ==
  /\ LET req == [token |-> token, id |-> userId]
         session == validateSession(token) IN
     IF session = NoSession
     THEN last' = Unauthorized("delete-user", req) /\ UNCHANGED <<users, sessions>>
     ELSE IF ~session.is_admin
     THEN last' = AdminRequired("delete-user", req) /\ UNCHANGED <<users, sessions>>
     ELSE IF foreign_keys /\ UserRows(userId) # {}
             /\ {s \in sessions : s.user_id = userId} # {}
     THEN \* DELETE FROM users fails on the FOREIGN KEY of sessions.user_id
          /\ last' = Respond("delete-user", 500, "Internal Server Error", req, [a |-> 0])
          /\ UNCHANGED <<users, sessions>>
     ELSE IF UserRows(userId) = {}
     THEN /\ last' = Respond("delete-user", 404, "User not found", req, [a |-> 0])
          /\ UNCHANGED <<users, sessions>>
     ELSE /\ users' = {u \in users : u.id # userId}
          /\ sessions' = {s \in sessions : s.user_id # userId}
          /\ last' = Respond("delete-user", 200, "ok", req, [success |-> TRUE])
  /\ plain' = {p \in plain : UserRows(p.user_id)' # {}}
  /\ UNCHANGED <<nextUserId, nextToken, nextSalt, reqs, envVars, storeVars>>
  /\ UNCHANGED <<verified, pwChanges>>

DeleteUser(token, userId) ==
  /\ LET req == [token |-> token, id |-> userId]
         session == validateSession(token) IN
     IF session = NoSession
     THEN last' = Unauthorized("delete-user", req) /\ UNCHANGED <<users, sessions>>
     ELSE IF ~session.is_admin
     THEN last' = AdminRequired("delete-user", req) /\ UNCHANGED <<users, sessions>>
     ELSE IF userId = session.user_id
     THEN /\ last' = Respond("delete-user", 400, "Cannot delete your own account",
                             req, [a |-> 0])
          /\ UNCHANGED <<users, sessions>>
     ELSE IF foreign_keys /\ UserRows(userId) # {}
             /\ {s \in sessions : s.user_id = userId} # {}
     THEN \* DELETE FROM users fails on the FOREIGN KEY of sessions.user_id
          /\ last' = Respond("delete-user", 500, "Internal Server Error", req, [a |-> 0])
          /\ UNCHANGED <<users, sessions>>
     ELSE IF UserRows(userId) = {}
     THEN /\ last' = Respond("delete-user", 404, "User not found", req, [a |-> 0])
          /\ UNCHANGED <<users, sessions>>
     ELSE /\ users' = {u \in users : u.id # userId}
          /\ sessions' = {s \in sessions : s.user_id # userId}
          /\ last' = Respond("delete-user", 200, "ok", req, [success |-> TRUE])
  /\ plain' = {p \in plain : UserRows(p.user_id)' # {}}
  /\ UNCHANGED <<nextUserId, nextToken, nextSalt, reqs, envVars, storeVars>>
  /\ UNCHANGED <<verified, pwChanges>>

(***************************************************************************)
(* Callsign store (admin routes) and card files.  A path under data/cards  *)
(* is a record: the callsign directory, what it is, and a file name.       *)
(***************************************************************************)
Upper(c) == CASE c = "x" -> "X" [] c = "y" -> "Y" [] OTHER -> c

RECURSIVE toUpperCase(_)
toUpperCase(s) == IF s = <<>> THEN <<>>
                  ELSE <<Upper(Head(s))>> \o toUpperCase(Tail(s))

defaultPositions == "default"
CardPath(dir) == [dir |-> dir, kind |-> "card.png", name |-> NULL]
BgDir(dir) == [dir |-> dir, kind |-> "backgrounds", name |-> NULL]
BgPath(dir, name) == [dir |-> dir, kind |-> "background", name |-> name]

Basename(s) ==
  LET cuts == {k \in 1..Len(s) : s[k] = "/"}
  IN IF cuts = {} THEN s
     ELSE SubSeq(s, (CHOOSE k \in cuts : \A j \in cuts : j <= k) + 1, Len(s))

SafeChars == {"f", "F", "x", "X", "y", "Y", "a", "A", "b", "B", ".", "_", "-"}

RECURSIVE Sanitize(_)
Sanitize(s) == IF s = <<>> THEN <<>>
               ELSE <<IF Head(s) \in SafeChars THEN Head(s) ELSE "_">> \o Sanitize(Tail(s))

\* The change a response acknowledges, kept per callsign id: the config the
\* response carries, or that the callsign was deleted.
MutationOps == {"create-callsign", "update-callsign", "delete-callsign", "manage-update"}

Target(r) ==
  CASE r.op = "create-callsign" -> r.out.id
    [] r.op = "manage-update" -> r.out.id
    [] OTHER -> toLowerCase(r.req.callsign)

Ack(r) ==
  IF r.op \in MutationOps /\ r.status \in {200, 201}
  THEN {a \in acked : a.id # Target(r)}
         \cup {[id |-> Target(r), deleted |-> r.op = "delete-callsign", config |-> r.out]}
  ELSE acked

CreateCallsign_KeepsCase(token, id, name, qrzLink, textPositions) ==
  /\ LET req == [token |-> token, id |-> id, name |-> name]
         session == validateSession(token)
         callsignId == id
         newCallsign == [id |-> callsignId, name |-> name,
                         qrzLink |-> IF qrzLink # NULL THEN qrzLink
                                     ELSE <<"q">> \o toUpperCase(id),
                         textPositions |-> IF textPositions # NULL THEN textPositions
                                           ELSE defaultPositions,
                         createdAt |-> toISOString(clock)] IN
     IF session = NoSession
     THEN last' = Unauthorized("create-callsign", req) /\ UNCHANGED <<callsigns, files>>
     ELSE IF ~session.is_admin
     THEN last' = AdminRequired("create-callsign", req) /\ UNCHANGED <<callsigns, files>>
     ELSE IF id = NULL \/ name = NULL
     THEN /\ last' = Respond("create-callsign", 400, "id and name are required", req, [a |-> 0])
          /\ UNCHANGED <<callsigns, files>>
     ELSE IF \E k \in 1..Len(loadCallsigns) : loadCallsigns[k].id = callsignId
     THEN /\ last' = Respond("create-callsign", 409, "Callsign already exists", req, [a |-> 0])
          /\ UNCHANGED <<callsigns, files>>
     ELSE /\ callsigns' = Append(loadCallsigns, newCallsign)
          /\ files' = files \cup {BgDir(callsignId)}
          /\ last' = Respond("create-callsign", 201, "created", req, newCallsign)
  /\ acked' = Ack(last')
  /\ UNCHANGED <<users, nextUserId, sessions, nextToken, nextSalt, reqs, audit>>
  /\ UNCHANGED <<envVars, histVars>>

CreateCallsign(token, id, name, qrzLink, textPositions) ==
  /\ LET req == [token |-> token, id |-> id, name |-> name]
         session == validateSession(token)
         callsignId == toLowerCase(id)
         newCallsign == [id |-> callsignId, name |-> name,
                         qrzLink |-> IF qrzLink # NULL THEN qrzLink
                                     ELSE <<"q">> \o toUpperCase(id),
                         textPositions |-> IF textPositions # NULL THEN textPositions
                                           ELSE defaultPositions,
                         createdAt |-> toISOString(clock)] IN
     IF session = NoSession
     THEN last' = Unauthorized("create-callsign", req) /\ UNCHANGED <<callsigns, files>>
     ELSE IF ~session.is_admin
     THEN last' = AdminRequired("create-callsign", req) /\ UNCHANGED <<callsigns, files>>
     ELSE IF id = NULL \/ name = NULL
     THEN /\ last' = Respond("create-callsign", 400, "id and name are required", req, [a |-> 0])
          /\ UNCHANGED <<callsigns, files>>
     ELSE IF FindIndex(loadCallsigns, callsignId) # 0
     THEN /\ last' = Respond("create-callsign", 409, "Callsign already exists", req, [a |-> 0])
          /\ UNCHANGED <<callsigns, files>>
     ELSE /\ callsigns' = Append(loadCallsigns, newCallsign)
          /\ files' = files \cup {BgDir(callsignId)}
          /\ last' = Respond("create-callsign", 201, "created", req, newCallsign)
  /\ acked' = Ack(last')
  /\ UNCHANGED <<users, nextUserId, sessions, nextToken, nextSalt, reqs, audit>>
  /\ UNCHANGED <<envVars, histVars>>

Splice_DropsTail(list, index) == SubSeq(list, 1, index - 1)

Splice(list, index) ==
  [k \in 1..(Len(list) - 1) |-> IF k < index THEN list[k] ELSE list[k + 1]]

DeleteCallsign(token, param) ==
  /\ LET req == [token |-> token, callsign |-> param]
         session == validateSession(token)
         index == FindIndex(loadCallsigns, toLowerCase(param)) IN
     IF session = NoSession
     THEN last' = Unauthorized("delete-callsign", req) /\ UNCHANGED callsigns
     ELSE IF ~session.is_admin
     THEN last' = AdminRequired("delete-callsign", req) /\ UNCHANGED callsigns
     ELSE IF index = 0
     THEN /\ last' = Respond("delete-callsign", 404, "Callsign not found", req, [a |-> 0])
          /\ UNCHANGED callsigns
     ELSE /\ callsigns' = Splice(loadCallsigns, index)
          /\ last' = Respond("delete-callsign", 200, "ok", req, [success |-> TRUE])
  /\ acked' = Ack(last')
  /\ UNCHANGED <<users, nextUserId, sessions, nextToken, nextSalt, reqs, files, audit>>
  /\ UNCHANGED <<envVars, histVars>>

(***************************************************************************)
(* POST /api/admin/callsigns/:callsign/upload/:type (multer diskStorage)   *)
(***************************************************************************)
AdminUpload(token, param, type, originalname) ==
  /\ LET req == [token |-> token, callsign |-> param, type |-> type,
                 originalname |-> originalname]
         session == validateSession(token)
         dir == toLowerCase(param)
         safeName == toLowerCase(Sanitize(originalname)) IN
     IF session = NoSession
     THEN last' = Unauthorized("admin-upload", req) /\ UNCHANGED files
     ELSE IF ~session.is_admin
     THEN last' = AdminRequired("admin-upload", req) /\ UNCHANGED files
     ELSE IF type = "card"
     THEN /\ files' = files \cup {CardPath(dir)}
          /\ last' = Respond("admin-upload", 200, "ok", req, [filename |-> <<"card.png">>])
     ELSE /\ files' = files \cup {BgDir(dir), BgPath(dir, safeName)}
          /\ last' = Respond("admin-upload", 200, "ok", req, [filename |-> safeName])
  /\ UNCHANGED <<users, nextUserId, sessions, nextToken, nextSalt, reqs, callsigns, audit, acked>>
  /\ UNCHANGED <<envVars, histVars>>

(***************************************************************************)
(* logAudit and the callsign-scoped protected routes.  Each route is a     *)
(* function of the session, the request, callsigns.json and the files:     *)
(* its response and the audit rows it inserts.                             *)
(***************************************************************************)
UNDEFINED == <<"undefined">>
OptLower(s) == IF s = NULL THEN UNDEFINED ELSE toLowerCase(s)

logAudit(session, param, action, details) ==
  [timestamp |-> datetime(clock), user_id |-> session.user_id,
   username |-> session.username,
   callsign |-> IF session.callsign # NULL THEN session.callsign ELSE param,
   action |-> action, details |-> details]

GuardDenies_AdminIgnored(session, callsign) ==
  OptLower(session.callsign) # callsign

GuardDenies(session, callsign) ==
  ~session.is_admin /\ OptLower(session.callsign) # callsign

NotFound == [status |-> 404, body |-> "Not found", out |-> NULL, rows |-> <<>>]

GeneratorAccess(session, param, list, fs) ==
  LET callsign == toLowerCase(param)
      index == getCallsignConfig(list, callsign) IN
  IF GuardDenies(session, callsign)
  THEN [NotFound EXCEPT !.rows =
          <<logAudit(session, param, "generator_access_denied", callsign)>>]
  ELSE IF index = 0
  THEN [status |-> 404, body |-> "Callsign not found", out |-> NULL, rows |-> <<>>]
  ELSE [status |-> 200, body |-> "config", out |-> list[index],
        rows |-> <<logAudit(session, param, "generator_access", callsign)>>]

GeneratorBackgrounds(session, param, list, fs) ==
  LET callsign == toLowerCase(param) IN
  IF GuardDenies(session, callsign) THEN NotFound
  ELSE IF BgDir(callsign) \notin fs
  THEN [status |-> 200, body |-> "list", out |-> {}, rows |-> <<>>]
  ELSE [status |-> 200, body |-> "list",
        out |-> {f.name : f \in {g \in fs : g.dir = callsign /\ g.kind = "background"}},
        rows |-> <<>>]

GeneratorDownload(session, param, list, fs) ==
  LET callsign == toLowerCase(param) IN
  IF GuardDenies(session, callsign) THEN NotFound
  ELSE [status |-> 200, body |-> "ok", out |-> NULL,
        rows |-> <<logAudit(session, param, "card_generated", "unknown")>>]

CardPng_ExistenceFirst(session, param, list, fs) ==
  LET callsign == toLowerCase(param) IN
  IF CardPath(callsign) \notin fs
  THEN [status |-> 404, body |-> "Card template not found", out |-> NULL, rows |-> <<>>]
  ELSE IF GuardDenies(session, callsign) THEN NotFound
  ELSE [status |-> 200, body |-> "file", out |-> CardPath(callsign), rows |-> <<>>]

CardPng(session, param, list, fs) ==
  LET callsign == toLowerCase(param) IN
  IF GuardDenies(session, callsign) THEN NotFound
  ELSE IF CardPath(callsign) \notin fs
  THEN [status |-> 404, body |-> "Card template not found", out |-> NULL, rows |-> <<>>]
  ELSE [status |-> 200, body |-> "file", out |-> CardPath(callsign), rows |-> <<>>]

CardBackground(session, param, filename, list, fs) ==
  LET callsign == toLowerCase(param)
      filePath == BgPath(callsign, Basename(filename)) IN
  IF GuardDenies(session, callsign) THEN NotFound
  ELSE IF filePath \notin fs
  THEN [status |-> 404, body |-> "Background not found", out |-> NULL, rows |-> <<>>]
  ELSE [status |-> 200, body |-> "file", out |-> filePath, rows |-> <<>>]

AppendAudit_Rotates(rows) ==
  IF Len(audit) + Len(rows) > 1 THEN Tail(audit \o rows) ELSE audit \o rows

AppendAudit(rows) == audit \o rows

\* The audit_log table starts or stops accepting inserts (disk full, locked file).
StorageFault ==
  /\ auditWritable' = ~auditWritable
  /\ last' = NoResponse
  /\ UNCHANGED <<users, nextUserId, sessions, nextToken, nextSalt, reqs>>
  /\ UNCHANGED <<foreign_keys, clock, pageVars, storeVars, histVars>>

ScopedRoutes == {"access", "backgrounds", "download", "card.png", "background"}

Route(op, session, param, filename, list, fs) ==
  CASE op = "access" -> GeneratorAccess(session, param, list, fs)
    [] op = "backgrounds" -> GeneratorBackgrounds(session, param, list, fs)
    [] op = "download" -> GeneratorDownload(session, param, list, fs)
    [] op = "card.png" -> CardPng(session, param, list, fs)
    [] op = "background" -> CardBackground(session, param, filename, list, fs)

Scoped(op, token, param, filename) ==
  /\ LET req == [token |-> token, callsign |-> param, filename |-> filename]
         session == validateSession(token)
         res == Route(op, session, param, filename, loadCallsigns, files) IN
     IF session = NoSession
     THEN last' = Unauthorized(op, req) /\ UNCHANGED audit
     ELSE IF res.rows # <<>> /\ ~auditWritable
     THEN \* db.prepare(...).run throws inside logAudit; nothing catches it
          /\ last' = Respond(op, 500, "Internal Server Error", req, NULL)
          /\ UNCHANGED audit
     ELSE /\ res.rows = <<>> \/ Len(audit) + Len(res.rows) <= MaxAudit
          /\ audit' = AppendAudit(res.rows)
          /\ last' = Respond(op, res.status, res.body, req, res.out)
  /\ UNCHANGED <<users, nextUserId, sessions, nextToken, nextSalt, reqs, callsigns, files, acked>>
  /\ UNCHANGED <<envVars, histVars>>

(***************************************************************************)
(* Admin routes that read, and the remaining admin mutations.              *)
(***************************************************************************)
ListUsers(token) ==
  /\ LET req == [token |-> token]
         session == validateSession(token) IN
     IF session = NoSession
     THEN last' = Unauthorized("list-users", req)
     ELSE IF ~session.is_admin
     THEN last' = AdminRequired("list-users", req)
     ELSE last' = Respond("list-users", 200, "ok", req,
                          {[id |-> u.id, username |-> u.username, callsign |-> u.callsign,
                            isAdmin |-> u.is_admin, last_login |-> u.last_login] : u \in users})
  /\ UNCHANGED <<users, nextUserId, sessions, nextToken, nextSalt, reqs>>
  /\ UNCHANGED <<envVars, storeVars, histVars>>

ListCallsigns(token) ==
  /\ LET req == [token |-> token]
         session == validateSession(token)
         data == loadCallsigns IN
     IF session = NoSession
     THEN last' = Unauthorized("list-callsigns", req)
     ELSE IF ~session.is_admin
     THEN last' = AdminRequired("list-callsigns", req)
     ELSE last' = Respond("list-callsigns", 200, "ok", req,
                          [k \in 1..Len(data) |->
                             [id |-> data[k].id, name |-> data[k].name,
                              qrzLink |-> data[k].qrzLink]])
  /\ UNCHANGED <<users, nextUserId, sessions, nextToken, nextSalt, reqs>>
  /\ UNCHANGED <<envVars, storeVars, histVars>>

\* PUT /api/admin/callsigns/:callsign
UpdateCallsign(token, param, name, qrzLink, textPositions) ==
  /\ LET req == [token |-> token, callsign |-> param, name |-> name]
         session == validateSession(token)
         data == loadCallsigns
         index == FindIndex(data, toLowerCase(param))
         old == data[index]
         updated == [id |-> old.id,
                     name |-> IF name # NULL THEN name ELSE old.name,
                     qrzLink |-> IF qrzLink # NULL THEN qrzLink ELSE old.qrzLink,
                     textPositions |-> IF textPositions # NULL THEN textPositions
                                       ELSE old.textPositions,
                     createdAt |-> old.createdAt,
                     updatedAt |-> toISOString(clock)] IN
     IF session = NoSession
     THEN last' = Unauthorized("update-callsign", req) /\ UNCHANGED callsigns
     ELSE IF ~session.is_admin
     THEN last' = AdminRequired("update-callsign", req) /\ UNCHANGED callsigns
     ELSE IF index = 0
     THEN /\ last' = Respond("update-callsign", 404, "Callsign not found", req, [a |-> 0])
          /\ UNCHANGED callsigns
     ELSE /\ callsigns' = [data EXCEPT ![index] = updated]
          /\ last' = Respond("update-callsign", 200, "ok", req, updated)
  /\ acked' = Ack(last')
  /\ UNCHANGED <<users, nextUserId, sessions, nextToken, nextSalt, reqs, files, audit>>
  /\ UNCHANGED <<envVars, histVars>>

AdminDeleteBackground_NoAdminCheck(token, param, filename) ==
  /\ LET req == [token |-> token, callsign |-> param, filename |-> filename]
         session == validateSession(token)
         filePath == BgPath(toLowerCase(param), filename) IN
     IF session = NoSession
     THEN last' = Unauthorized("admin-delete-background", req) /\ UNCHANGED files
     ELSE IF filePath \notin files
     THEN /\ last' = Respond("admin-delete-background", 404, "File not found", req, [a |-> 0])
          /\ UNCHANGED files
     ELSE /\ files' = files \ {filePath}
          /\ last' = Respond("admin-delete-background", 200, "ok", req, [success |-> TRUE])
  /\ UNCHANGED <<users, nextUserId, sessions, nextToken, nextSalt, reqs, callsigns, audit, acked>>
  /\ UNCHANGED <<envVars, histVars>>

\* DELETE /api/admin/callsigns/:callsign/backgrounds/:filename
AdminDeleteBackground(token, param, filename) ==
  /\ LET req == [token |-> token, callsign |-> param, filename |-> filename]
         session == validateSession(token)
         filePath == BgPath(toLowerCase(param), filename) IN
     IF session = NoSession
     THEN last' = Unauthorized("admin-delete-background", req) /\ UNCHANGED files
     ELSE IF ~session.is_admin
     THEN last' = AdminRequired("admin-delete-background", req) /\ UNCHANGED files
     ELSE IF filePath \notin files
     THEN /\ last' = Respond("admin-delete-background", 404, "File not found", req, [a |-> 0])
          /\ UNCHANGED files
     ELSE /\ files' = files \ {filePath}
          /\ last' = Respond("admin-delete-background", 200, "ok", req, [success |-> TRUE])
  /\ UNCHANGED <<users, nextUserId, sessions, nextToken, nextSalt, reqs, callsigns, audit, acked>>
  /\ UNCHANGED <<envVars, histVars>>

(***************************************************************************)
(* GET /api/admin/audit.  JavaScript numbers are records so that NaN is a  *)
(* value; the rows returned are named by their id, the position in the     *)
(* table.                                                                  *)
(***************************************************************************)
DEFAULT_LIMIT == 100
MAX_LIMIT == 1000

NaN == [nan |-> TRUE, v |-> 0]
Num(v) == [nan |-> FALSE, v |-> v]

DigitChars == {"0", "1", "2", "3", "4", "5", "6", "7", "8", "9"}
DigitValue(c) ==
  CASE c = "0" -> 0 [] c = "1" -> 1 [] c = "2" -> 2 [] c = "3" -> 3 [] c = "4" -> 4
    [] c = "5" -> 5 [] c = "6" -> 6 [] c = "7" -> 7 [] c = "8" -> 8 [] c = "9" -> 9

RECURSIVE TrimStart(_)
TrimStart(s) == IF s # <<>> /\ Head(s) = " " THEN TrimStart(Tail(s)) ELSE s

\* value of the longest prefix of decimal digits, read after acc
RECURSIVE ReadDigits(_, _)
ReadDigits(s, acc) ==
  IF s # <<>> /\ Head(s) \in DigitChars
  THEN ReadDigits(Tail(s), 10 * acc + DigitValue(Head(s)))
  ELSE acc

\* parseInt(string), radix 10: optional blanks, optional sign, digits; what
\* follows the digits is ignored; NaN when there is no digit
parseInt(string) ==
  LET t == TrimStart(string)
      signed == t # <<>> /\ Head(t) \in {"-", "+"}
      body == IF signed THEN Tail(t) ELSE t
      sign == IF signed /\ Head(t) = "-" THEN 0 - 1 ELSE 1
  IN IF body = <<>> \/ Head(body) \notin DigitChars THEN NaN
     ELSE Num(sign * ReadDigits(body, 0))

\* a || b on numbers: NaN and 0 are falsy
OrElse(a, b) == IF a.nan \/ a.v = 0 THEN b ELSE a
MathMin(a, b) == IF a.nan \/ b.nan THEN NaN ELSE IF a.v < b.v THEN a ELSE b

AuditLimit(limit) == MathMin(OrElse(parseInt(limit), Num(DEFAULT_LIMIT)), Num(MAX_LIMIT)).v

\* ORDER BY timestamp DESC.  SQL leaves the order of rows with equal
\* timestamps to the query plan.  The schema creates idx_audit_timestamp, so
\* the plan is a backward scan of that index, whose entries are ordered by
\* (timestamp, rowid): descending rowid.  A plan that sorts the table scan
\* would give ascending rowid.
TieOrder_Sorter == "rowid ascending"

TieOrder == "rowid descending"

Reverse(s) == [k \in 1..Len(s) |-> s[Len(s) + 1 - k]]

\* The row ids of the table, greatest timestamp first; the rows of one
\* timestamp come in the order the query plan happens to give.
OrderByTimestampDesc(table, ties) ==
  LET n == Len(table)
      ids == [i \in 1..n |-> i]
      Group(t) == SelectSeq(ids, LAMBDA i : table[i].timestamp = t)
      RECURSIVE Walk(_)
      Walk(stamps) ==
        IF stamps = {} THEN <<>>
        ELSE LET t == CHOOSE x \in stamps :
                        \A y \in stamps \ {x} : TextGreater(x, y)
             IN (IF ties = "rowid ascending" THEN Group(t) ELSE Reverse(Group(t)))
                  \o Walk(stamps \ {t})
  IN Walk({table[i].timestamp : i \in 1..n})

\* LIMIT n: a negative n is no limit
SqlLimit(rows, n) ==
  IF n < 0 \/ n >= Len(rows) THEN rows ELSE SubSeq(rows, 1, n)

AuditList(token, limit) ==
  /\ LET req == [token |-> token, limit |-> limit]
         session == validateSession(token) IN
     IF session = NoSession
     THEN last' = Unauthorized("audit", req)
     ELSE IF ~session.is_admin
     THEN last' = AdminRequired("audit", req)
     ELSE last' = Respond("audit", 200, "ok", req,
                          SqlLimit(OrderByTimestampDesc(audit, TieOrder), AuditLimit(limit)))
  /\ UNCHANGED <<users, nextUserId, sessions, nextToken, nextSalt, reqs>>
  /\ UNCHANGED <<envVars, storeVars, histVars>>

(***************************************************************************)
(* /api/manage/callsign: the session user's own callsign config.  A body   *)
(* is the whole JSON object sent; the handler reads name, qrzLink and      *)
(* textPositions from it.                                                  *)
(***************************************************************************)
NoCallsign(op, req) ==
  Respond(op, 403, "No callsign assigned to your account", req, [a |-> 0])

\* answers with the first configuration of the document, whoever asks
ManageGet_FirstConfig(token) ==
  /\ LET req == [token |-> token]
         session == validateSession(token)
         index == getCallsignConfig(loadCallsigns, session.callsign) IN
     IF session = NoSession
     THEN last' = Unauthorized("manage-get", req)
     ELSE IF session.callsign = NULL
     THEN last' = NoCallsign("manage-get", req)
     ELSE IF index = 0
     THEN last' = Respond("manage-get", 404, "Callsign not found", req, [a |-> 0])
     ELSE last' = Respond("manage-get", 200, "config", req, loadCallsigns[1])
  /\ UNCHANGED <<users, nextUserId, sessions, nextToken, nextSalt, reqs>>
  /\ UNCHANGED <<envVars, storeVars, histVars>>

ManageGet(token) ==
  /\ LET req == [token |-> token]
         session == validateSession(token)
         index == getCallsignConfig(loadCallsigns, session.callsign) IN
     IF session = NoSession
     THEN last' = Unauthorized("manage-get", req)
     ELSE IF session.callsign = NULL
     THEN last' = NoCallsign("manage-get", req)
     ELSE IF index = 0
     THEN last' = Respond("manage-get", 404, "Callsign not found", req, [a |-> 0])
     ELSE last' = Respond("manage-get", 200, "config", req, loadCallsigns[index])
  /\ UNCHANGED <<users, nextUserId, sessions, nextToken, nextSalt, reqs>>
  /\ UNCHANGED <<envVars, storeVars, histVars>>

\* textPositions is an object, not a string: ABSENT stands for a body without it.
ABSENT == "absent"

ManageBody(id, name, qrzLink, textPositions, createdAt) ==
  [id |-> id, name |-> name, qrzLink |-> qrzLink, textPositions |-> textPositions,
   createdAt |-> createdAt]

ApplyBody_Assign(config, body) ==
  [id |-> IF body.id # NULL THEN body.id ELSE config.id,
   name |-> IF body.name # NULL THEN body.name ELSE config.name,
   qrzLink |-> IF body.qrzLink # NULL THEN body.qrzLink ELSE config.qrzLink,
   textPositions |-> IF body.textPositions # ABSENT THEN body.textPositions
                     ELSE config.textPositions,
   createdAt |-> config.createdAt,
   updatedAt |-> toISOString(clock)]

ApplyBody(config, body) ==
  [id |-> config.id,
   name |-> IF body.name # NULL THEN body.name ELSE config.name,
   qrzLink |-> IF body.qrzLink # NULL THEN body.qrzLink ELSE config.qrzLink,
   textPositions |-> IF body.textPositions # ABSENT THEN body.textPositions
                     ELSE config.textPositions,
   createdAt |-> config.createdAt,
   updatedAt |-> toISOString(clock)]

ManageUpdate(token, body) ==
  /\ LET req == [token |-> token, body |-> body]
         session == validateSession(token)
         data == loadCallsigns
         index == FindIndex(data, toLowerCase(session.callsign)) IN
     IF session = NoSession
     THEN last' = Unauthorized("manage-update", req) /\ UNCHANGED callsigns
     ELSE IF session.callsign = NULL
     THEN last' = NoCallsign("manage-update", req) /\ UNCHANGED callsigns
     ELSE IF index = 0
     THEN /\ last' = Respond("manage-update", 404, "Callsign not found", req, [a |-> 0])
          /\ UNCHANGED callsigns
     ELSE /\ callsigns' = [data EXCEPT ![index] = ApplyBody(data[index], body)]
          /\ last' = Respond("manage-update", 200, "ok", req, ApplyBody(data[index], body))
  /\ acked' = Ack(last')
  /\ UNCHANGED <<users, nextUserId, sessions, nextToken, nextSalt, reqs, files, audit>>
  /\ UNCHANGED <<envVars, histVars>>

(***************************************************************************)
(* The owner's file routes.  A file name is a sequence of characters; the  *)
(* one-element names <<"card.png">> and <<"backgrounds">> stand for those  *)
(* strings.  path.join splits on "/" and resolves "." and ".." segments,   *)
(* so the joined path may leave the directory it started in.               *)
(***************************************************************************)
RECURSIVE Split(_)
Split(s) ==
  LET cuts == {k \in 1..Len(s) : s[k] = "/"} IN
  IF cuts = {} THEN <<s>>
  ELSE LET k == CHOOSE c \in cuts : \A j \in cuts : c <= j
       IN <<SubSeq(s, 1, k - 1)>> \o Split(SubSeq(s, k + 1, Len(s)))

\* path.normalize over segments below CARDS_DIR; "above" marks a path that
\* has left CARDS_DIR
RECURSIVE Normalize(_, _)
Normalize(stack, segments) ==
  IF segments = <<>> THEN stack
  ELSE LET seg == Head(segments) IN
       IF seg = <<>> \/ seg = <<".">> THEN Normalize(stack, Tail(segments))
       ELSE IF seg = <<".", ".">>
       THEN IF stack = <<>> \/ stack[Len(stack)] = "above"
            THEN Normalize(<<"above">>, Tail(segments))
            ELSE Normalize(SubSeq(stack, 1, Len(stack) - 1), Tail(segments))
       ELSE Normalize(Append(stack, seg), Tail(segments))

Elsewhere == [dir |-> NULL, kind |-> "elsewhere", name |-> NULL]

\* path.join(CARDS_DIR, callsign, 'backgrounds', filename)
pathJoin(callsign, filename) ==
  LET p == Normalize(<<callsign, <<"backgrounds">>>>, Split(filename)) IN
  IF Len(p) = 2 /\ p[2] = <<"card.png">> THEN CardPath(p[1])
  ELSE IF Len(p) = 2 /\ p[2] = <<"backgrounds">> THEN BgDir(p[1])
  ELSE IF Len(p) = 3 /\ p[2] = <<"backgrounds">> THEN BgPath(p[1], p[3])
  ELSE Elsewhere

ManageUpload(token, type, originalname) ==
  /\ LET req == [token |-> token, type |-> type, originalname |-> originalname]
         session == validateSession(token)
         dir == toLowerCase(session.callsign)
         safeName == toLowerCase(Sanitize(originalname)) IN
     IF session = NoSession
     THEN last' = Unauthorized("manage-upload", req) /\ UNCHANGED files
     ELSE IF session.callsign = NULL
     THEN last' = NoCallsign("manage-upload", req) /\ UNCHANGED files
     ELSE IF originalname = NULL
     THEN /\ last' = Respond("manage-upload", 400, "No file uploaded", req, [a |-> 0])
          /\ UNCHANGED files
     ELSE IF type = "card"
     THEN /\ files' = files \cup {CardPath(dir)}
          /\ last' = Respond("manage-upload", 200, "ok", req, [filename |-> <<"card.png">>])
     ELSE /\ files' = files \cup {BgDir(dir), BgPath(dir, safeName)}
          /\ last' = Respond("manage-upload", 200, "ok", req, [filename |-> safeName])
  /\ UNCHANGED <<users, nextUserId, sessions, nextToken, nextSalt, reqs, callsigns, audit, acked>>
  /\ UNCHANGED <<envVars, histVars>>

ManageDeleteBackground(token, filename) ==
  /\ LET req == [token |-> token, filename |-> filename]
         session == validateSession(token)
         filePath == pathJoin(toLowerCase(session.callsign), filename) IN
     IF session = NoSession
     THEN last' = Unauthorized("manage-delete-background", req) /\ UNCHANGED files
     ELSE IF session.callsign = NULL
     THEN last' = NoCallsign("manage-delete-background", req) /\ UNCHANGED files
     ELSE IF filePath \notin files
     THEN /\ last' = Respond("manage-delete-background", 404, "File not found", req, [a |-> 0])
          /\ UNCHANGED files
     ELSE IF filePath.kind = "backgrounds"
     THEN \* fs.unlinkSync of a directory throws; Express answers 500
          /\ last' = Respond("manage-delete-background", 500, "Internal Server Error",
                             req, [a |-> 0])
          /\ UNCHANGED files
     ELSE /\ files' = files \ {filePath}
          /\ last' = Respond("manage-delete-background", 200, "ok", req, [success |-> TRUE])
  /\ UNCHANGED <<users, nextUserId, sessions, nextToken, nextSalt, reqs, callsigns, audit, acked>>
  /\ UNCHANGED <<envVars, histVars>>

(***************************************************************************)
(* Routes without requireAuth: the public callsign API, express.static on  *)
(* ../public and the page route /:callsign.  A URL of a GET is written as  *)
(* the path record it names: Page(n) for /n, CardPath and BgPath for       *)
(* /cards/<callsign>/card.png and /cards/<callsign>/backgrounds/<name>.    *)
(***************************************************************************)
Page(name) == [dir |-> NULL, kind |-> "page", name |-> name]

StaticPages ==
  {<<"admin.html">>, <<"index.html">>, <<"404.html">>, <<"generator.html">>,
   <<"demo.html">>}

PublicDir == {Page(n) : n \in StaticPages}

PublicCallsign(param, list, fs) ==
  LET index == getCallsignConfig(list, toLowerCase(param)) IN
  IF index = 0
  THEN [status |-> 404, body |-> "Callsign not found", out |-> NULL]
  ELSE [status |-> 200, body |-> "config", out |-> list[index]]

PublicBackgrounds(param, list, fs) ==
  LET callsign == toLowerCase(param) IN
  IF BgDir(callsign) \notin fs
  THEN [status |-> 200, body |-> "list", out |-> {}]
  ELSE [status |-> 200, body |-> "list",
        out |-> {f.name : f \in {g \in fs : g.dir = callsign /\ g.kind = "background"}}]

CallsignPage(param, list, fs) ==
  LET callsign == toLowerCase(param) IN
  IF param \in StaticPages
  THEN [status |-> 200, body |-> "file", out |-> Page(param)]
  ELSE IF callsign = <<"demo">>
  THEN [status |-> 200, body |-> "file", out |-> Page(<<"demo.html">>)]
  ELSE IF getCallsignConfig(list, callsign) = 0
  THEN [status |-> 404, body |-> "file", out |-> Page(<<"404.html">>)]
  ELSE [status |-> 200, body |-> "file", out |-> Page(<<"generator.html">>)]

PublicRoutes == {"public-callsign", "public-backgrounds", "page"}

PublicRoute(op, param, list, fs) ==
  CASE op = "public-callsign" -> PublicCallsign(param, list, fs)
    [] op = "public-backgrounds" -> PublicBackgrounds(param, list, fs)
    [] op = "page" -> CallsignPage(param, list, fs)

\* The request may carry a token; these routes never look at it.
Public(op, token, param) ==
  /\ LET req == [token |-> token, callsign |-> param]
         res == PublicRoute(op, param, loadCallsigns, files) IN
     last' = Respond(op, res.status, res.body, req, res.out)
  /\ UNCHANGED <<users, nextUserId, sessions, nextToken, nextSalt, reqs>>
  /\ UNCHANGED <<envVars, storeVars, histVars>>

\* src/server.js, the server without sessions, also mounts the card directory:
\* app.use('/cards', express.static(CARDS_DIR)).
ServeStatic_CardsMounted(url, fs) ==
  IF url \in PublicDir \/ url \in {f \in fs : f.kind \in {"card.png", "background"}}
  THEN [status |-> 200, body |-> "file", out |-> url]
  ELSE [status |-> 404, body |-> "Cannot GET", out |-> NULL]

\* express.static(../public); data/cards is not under it
ServeStatic(url, fs) ==
  IF url \in PublicDir
  THEN [status |-> 200, body |-> "file", out |-> url]
  ELSE [status |-> 404, body |-> "Cannot GET", out |-> NULL]

Get(token, url) ==
  /\ LET req == [token |-> token, url |-> url]
         res == ServeStatic(url, files) IN
     last' = Respond("get", res.status, res.body, req, res.out)
  /\ UNCHANGED <<users, nextUserId, sessions, nextToken, nextSalt, reqs>>
  /\ UNCHANGED <<envVars, storeVars, histVars>>

(***************************************************************************)
(* The i18n module of the browser pages.  Language codes and loaded locale *)
(* files are strings; a call of init() or setLanguage() suspends at the    *)
(* await of loadLocale and resumes when fetch has succeeded or failed.     *)
(***************************************************************************)
MaxCalls == 2
CallSlots == 1..MaxCalls

SUPPORTED_LANGS == {"de", "en"}
DEFAULT_LANG == "en"

NoItem == "null"        \* localStorage.getItem returned null
NullLocale == "null"    \* loadLocale caught an error and returned null
EmptyObject == "{}"
Locale(lang) == CASE lang = "de" -> "de.json" [] lang = "en" -> "en.json"

NoCall == [pc |-> "idle", lang |-> ""]
NoReturn == [fn |-> "none", arg |-> "", value |-> ""]

PageFresh ==
  /\ currentLang = DEFAULT_LANG
  /\ translations = EmptyObject
  /\ initialized = FALSE
  /\ localStorage = NoItem
  /\ browserLang = "en"
  /\ calls = [c \in CallSlots |-> NoCall]
  /\ returned = NoReturn

serverVars == <<users, nextUserId, sessions, nextToken, nextSalt, foreign_keys,
                auditWritable, clock, reqs, last, storeVars, histVars>>

detectLanguage ==
  IF localStorage # NoItem /\ localStorage \in SUPPORTED_LANGS THEN localStorage
  ELSE IF browserLang \in SUPPORTED_LANGS THEN browserLang
  ELSE DEFAULT_LANG

loadLocale(lang, ok) == IF ok THEN Locale(lang) ELSE NullLocale

InitStart(c) ==
  /\ calls[c] = NoCall
  /\ IF initialized
     THEN /\ returned' = [fn |-> "init", arg |-> "", value |-> currentLang]
          /\ UNCHANGED <<currentLang, calls>>
     ELSE /\ currentLang' = detectLanguage
          /\ calls' = [calls EXCEPT ![c] = [pc |-> "init-load", lang |-> detectLanguage]]
          /\ UNCHANGED returned
  /\ UNCHANGED <<translations, initialized, localStorage, browserLang, serverVars>>

InitResume(c, ok) ==
  /\ calls[c].pc = "init-load"
  /\ LET loaded == loadLocale(calls[c].lang, ok) IN
     IF loaded = NullLocale /\ currentLang # DEFAULT_LANG
     THEN \* fall back to the default: the second await
          /\ currentLang' = DEFAULT_LANG
          /\ translations' = NullLocale
          /\ calls' = [calls EXCEPT ![c] = [pc |-> "init-fallback", lang |-> DEFAULT_LANG]]
          /\ UNCHANGED <<initialized, returned>>
     ELSE /\ translations' = IF loaded = NullLocale THEN EmptyObject ELSE loaded
          /\ initialized' = TRUE
          /\ calls' = [calls EXCEPT ![c] = NoCall]
          /\ returned' = [fn |-> "init", arg |-> "", value |-> currentLang]
          /\ UNCHANGED currentLang
  /\ UNCHANGED <<localStorage, browserLang, serverVars>>

InitFallbackResume(c, ok) ==
  /\ calls[c].pc = "init-fallback"
  /\ LET loaded == loadLocale(calls[c].lang, ok) IN
     translations' = IF loaded = NullLocale THEN EmptyObject ELSE loaded
  /\ initialized' = TRUE
  /\ calls' = [calls EXCEPT ![c] = NoCall]
  /\ returned' = [fn |-> "init", arg |-> "", value |-> currentLang]
  /\ UNCHANGED <<currentLang, localStorage, browserLang, serverVars>>

SetLanguageStart(c, lang) ==
  /\ calls[c] = NoCall
  /\ IF lang \notin SUPPORTED_LANGS
     THEN /\ returned' = [fn |-> "setLanguage", arg |-> lang, value |-> "false"]
          /\ UNCHANGED calls
     ELSE /\ calls' = [calls EXCEPT ![c] = [pc |-> "set-load", lang |-> lang]]
          /\ UNCHANGED returned
  /\ UNCHANGED <<currentLang, translations, initialized, localStorage, browserLang,
                 serverVars>>

\* the statements of setLanguage after a successful load
Commit_LanguageOnly(lang, loaded) ==
  /\ currentLang' = lang
  /\ localStorage' = lang
  /\ UNCHANGED translations

Commit(lang, loaded) ==
  /\ translations' = loaded
  /\ currentLang' = lang
  /\ localStorage' = lang

SetLanguageResume(c, ok) ==
  /\ calls[c].pc = "set-load"
  /\ calls' = [calls EXCEPT ![c] = NoCall]
  /\ LET lang == calls[c].lang
         newTranslations == loadLocale(lang, ok) IN
     IF newTranslations = NullLocale
     THEN /\ returned' = [fn |-> "setLanguage", arg |-> lang, value |-> "false"]
          /\ UNCHANGED <<currentLang, translations, localStorage>>
     ELSE /\ Commit(lang, newTranslations)
          /\ returned' = [fn |-> "setLanguage", arg |-> lang, value |-> "true"]
  /\ UNCHANGED <<initialized, browserLang, serverVars>>

\* the caller takes the resolved value
Collect ==
  /\ returned # NoReturn
  /\ returned' = NoReturn
  /\ UNCHANGED <<currentLang, translations, initialized, localStorage, browserLang, calls,
                 serverVars>>

TokenInputs == Tokens \cup {BogusToken, NoToken}
UserIds == 1..MaxUsers
PwP == Rep("p", MIN_PASSWORD_LENGTH)
PwQ == Rep("q", MIN_PASSWORD_LENGTH)
PwLongX == Rep("p", BCRYPT_MAX_BYTES) \o <<"x">>
PwLongY == Rep("p", BCRYPT_MAX_BYTES) \o <<"y">>
PwShort == Rep("p", MIN_PASSWORD_LENGTH - 1)

(***************************************************************************)
(* Specifications.                                                         *)
(***************************************************************************)
ServerInit ==
  /\ users = {}
  /\ nextUserId = 1
  /\ sessions = {}
  /\ nextToken = 1
  /\ nextSalt = 1
  /\ foreign_keys \in BOOLEAN
  /\ auditWritable = TRUE
  /\ clock = 0
  /\ reqs = [i \in Slots |-> Idle]
  /\ last = NoResponse
  /\ callsigns = <<>>
  /\ files = {}
  /\ audit = <<>>
  /\ verified = {}
  /\ pwChanges = {}
  /\ plain = {}
  /\ acked = {}

Init == ServerInit /\ PageFresh

AllIdle == \A i \in Slots : reqs[i] = Idle
Ready == last = NoResponse
LoginOpen == clock < LoginDays * TicksPerDay

\* The response leaves the process; the event loop takes the next event.
Flush ==
  /\ last # NoResponse
  /\ last' = NoResponse
  /\ UNCHANGED <<users, nextUserId, sessions, nextToken, nextSalt, reqs>>
  /\ UNCHANGED <<envVars, storeVars, histVars>>

(***************************************************************************)
(* Spec: the server under concurrent requests.  A handler suspended at an  *)
(* await occupies a slot; any other handler may run meanwhile.  The clock  *)
(* stands still.                                                           *)
(***************************************************************************)
Body(password, hasCallsign, callsign, hasIsAdmin, isAdmin) ==
  [password |-> password, hasCallsign |-> hasCallsign, callsign |-> callsign,
   hasIsAdmin |-> hasIsAdmin, isAdmin |-> isAdmin]

Next ==
  \/ Ready /\ CreateAdminCli(<<"a">>, PwP)
  \/ Ready /\ \E i \in Slots : LoginStart(i, <<"a">>, PwP)
  \/ Ready /\ \E i \in Slots : LoginResume(i)
  \/ Ready /\ \E t \in Tokens : Logout(t)
  \/ Ready /\ \E i \in Slots, t \in Tokens : ChangePasswordStart(i, t, PwP, PwQ)
  \/ Ready /\ \E i \in Slots : ChangePasswordResume(i)
  \/ Ready /\ \E i \in Slots, t \in Tokens, u \in {<<"b">>, <<"B">>} :
                CreateUserStart(i, t, u, PwP, <<"x">>, FALSE)
  \/ Ready /\ \E i \in Slots : CreateUserResume(i)
  \/ Ready /\ \E i \in Slots, t \in Tokens, id \in UserIds :
                UpdateUserStart(i, t, id, Body(PwQ, TRUE, <<"x">>, FALSE, FALSE))
  \/ Ready /\ \E i \in Slots : UpdateUserResume(i)
  \/ Ready /\ \E t \in Tokens, id \in UserIds : DeleteUser(t, id)
  \/ Ready /\ \E t \in Tokens : CreateCallsign(t, <<"X">>, <<"n">>, NULL, NULL)
  \/ Flush

Spec == Init /\ [][Next]_vars

(***************************************************************************)
(* TimeSpec: the session life cycle against the clock; one request at a    *)
(* time, the clock and the hourly sweep move between requests.  Logins     *)
(* arrive during the first LoginDays days.                                 *)
(***************************************************************************)
TimeNext ==
  \/ Ready /\ AllIdle /\ \E u \in {<<"a">>, <<"b">>} : CreateAdminCli(u, PwP)
  \/ Ready /\ AllIdle /\ LoginOpen /\ \E u \in {<<"a">>, <<"B">>} : LoginStart(1, u, PwP)
  \/ Ready /\ LoginResume(1)
  \/ Ready /\ AllIdle /\ \E t \in Tokens : Logout(t)
  \/ Ready /\ AllIdle /\ \E t \in TokenInputs : Me(t)
  \/ Ready /\ AllIdle /\ \E t \in Tokens : ChangePasswordStart(1, t, PwP, PwP)
  \/ Ready /\ ChangePasswordResume(1)
  \/ Ready /\ AllIdle /\ \E t \in Tokens, id \in UserIds : DeleteUser(t, id)
  \/ Ready /\ AllIdle /\ Tick
  \/ Ready /\ AllIdle /\ cleanExpiredSessions
  \/ Flush

TimeSpec == Init /\ [][TimeNext]_vars

(***************************************************************************)
(* SeqSpec: accounts, sessions and callsign bindings, one request at a     *)
(* time (every handler runs to its response before the next one starts);   *)
(* the clock stands still.                                                 *)
(***************************************************************************)
UpdateBodies ==
  {Body(NULL, TRUE, cs, FALSE, FALSE) : cs \in {NULL, <<"x">>, <<"X">>}}
    \cup {Body(PwQ, TRUE, <<"x">>, FALSE, FALSE), Body(PwQ, FALSE, NULL, FALSE, FALSE),
          Body(NULL, FALSE, NULL, TRUE, FALSE)}

SeqNext ==
  \/ Ready /\ AllIdle /\ CreateAdminCli(<<"a">>, PwP)
  \/ Ready /\ AllIdle /\ \E u \in {<<"a">>, <<"A">>, <<"b">>, <<"B">>}, p \in {PwP, PwQ} :
                           LoginStart(1, u, p)
  \/ Ready /\ LoginResume(1)
  \/ Ready /\ AllIdle /\ \E t \in Tokens : Logout(t)
  \/ Ready /\ AllIdle /\ \E t \in Tokens : ChangePasswordStart(1, t, PwP, PwQ)
  \/ Ready /\ ChangePasswordResume(1)
  \/ Ready /\ AllIdle /\ \E t \in Tokens, u \in {<<"b">>, <<"B">>, <<"A">>},
                            cs \in {NULL, <<"x">>, <<"X">>} :
                           CreateUserStart(1, t, u, PwP, cs, FALSE)
  \/ Ready /\ CreateUserResume(1)
  \/ Ready /\ AllIdle /\ \E t \in Tokens, id \in UserIds, body \in UpdateBodies :
                           UpdateUserStart(1, t, id, body)
  \/ Ready /\ UpdateUserResume(1)
  \/ Ready /\ AllIdle /\ \E t \in Tokens, id \in UserIds : DeleteUser(t, id)
  \/ Ready /\ AllIdle /\ \E t \in Tokens, id \in {<<"x">>, <<"X">>} :
                           CreateCallsign(t, id, <<"n">>, NULL, NULL)
  \/ Ready /\ AllIdle /\ \E t \in Tokens : DeleteCallsign(t, <<"X">>)
  \/ Flush

SeqSpec == Init /\ [][SeqNext]_vars

(***************************************************************************)
(* GuardSpec: the callsign-scoped protected routes, one request at a time, *)
(* over the accounts, callsign configs and files the admin routes set up.  *)
(***************************************************************************)
GuardNext ==
  \/ Ready /\ AllIdle /\ CreateAdminCli(<<"a">>, PwP)
  \/ Ready /\ AllIdle /\ \E u \in {<<"a">>, <<"b">>} : LoginStart(1, u, PwP)
  \/ Ready /\ LoginResume(1)
  \/ Ready /\ AllIdle /\ \E t \in Tokens, cs \in {NULL, <<"X">>} :
                           CreateUserStart(1, t, <<"b">>, PwP, cs, FALSE)
  \/ Ready /\ CreateUserResume(1)
  \/ Ready /\ AllIdle /\ \E t \in Tokens : CreateCallsign(t, <<"X">>, <<"n">>, NULL, NULL)
  \/ Ready /\ AllIdle /\ \E t \in Tokens : DeleteCallsign(t, <<"x">>)
  \/ Ready /\ AllIdle /\ \E t \in Tokens, type \in {"card", "background"} :
                           AdminUpload(t, <<"X">>, type, <<"F">>)
  \/ Ready /\ AllIdle /\ \E op \in ScopedRoutes, t \in Tokens, cs \in CallsignInputs :
                           Scoped(op, t, cs, <<"f">>)
  \/ Flush

GuardSpec == Init /\ [][GuardNext]_vars

(***************************************************************************)
(* AuditSpec: the audit log.  The two routes that call logAudit, the       *)
(* listing, the clock and the storage of audit_log, one request at a time. *)
(***************************************************************************)
LimitInputs ==
  {UNDEFINED, <<"a">>, <<"0">>, <<"-", "1">>, <<"1">>, <<"2">>,
   <<"1", "0", "0", "0">>, <<"1", "0", "0", "1">>}

AuditNext ==
  \/ Ready /\ AllIdle /\ CreateAdminCli(<<"a">>, PwP)
  \/ Ready /\ AllIdle /\ \E u \in {<<"a">>, <<"b">>} : LoginStart(1, u, PwP)
  \/ Ready /\ LoginResume(1)
  \/ Ready /\ AllIdle /\ \E t \in Tokens : CreateUserStart(1, t, <<"b">>, PwP, <<"X">>, FALSE)
  \/ Ready /\ CreateUserResume(1)
  \/ Ready /\ AllIdle /\ \E t \in Tokens : CreateCallsign(t, <<"X">>, <<"n">>, NULL, NULL)
  \/ Ready /\ AllIdle /\ \E op \in {"access", "download"}, t \in TokenInputs,
                           cs \in {<<"x">>, <<"y">>} : Scoped(op, t, cs, NULL)
  \/ Ready /\ AllIdle /\ \E t \in TokenInputs, limit \in LimitInputs : AuditList(t, limit)
  \/ Ready /\ AllIdle /\ StorageFault
  \/ Ready /\ AllIdle /\ LoginOpen /\ Tick
  \/ Flush

AuditSpec == Init /\ [][AuditNext]_vars

(***************************************************************************)
(* AuditListSpec: the audit listing over logs of many sizes.  The database *)
(* is the one left by the bootstrap CLI, the admin's login, the creation   *)
(* of callsign x and then n generator accesses by the admin.               *)
(***************************************************************************)
AuditSizes == {0, 1, DEFAULT_LIMIT - 1, DEFAULT_LIMIT + 1, MAX_LIMIT + 1}

Accesses(n) ==
  [k \in 1..n |->
     [timestamp |-> datetime(0), user_id |-> 1, username |-> <<"a">>,
      callsign |-> <<"x">>, action |-> "generator_access", details |-> <<"x">>]]

AuditListInit ==
  /\ users = {[id |-> 1, username |-> <<"a">>, password_hash |-> bcryptHash(PwP, 1),
               callsign |-> NULL, is_admin |-> TRUE, last_login |-> toISOString(0)]}
  /\ nextUserId = 2
  /\ sessions = {[token |-> 1, user_id |-> 1, created_at |-> datetime(0),
                  expires_at |-> toISOString(SessionTtl)]}
  /\ nextToken = 2
  /\ nextSalt = 2
  /\ foreign_keys \in BOOLEAN
  /\ auditWritable = TRUE
  /\ clock = 0
  /\ reqs = [i \in Slots |-> Idle]
  /\ last = NoResponse
  /\ callsigns = <<[id |-> <<"x">>, name |-> <<"n">>, qrzLink |-> <<"q", "X">>,
                    textPositions |-> "default", createdAt |-> toISOString(0)]>>
  /\ files = {BgDir(<<"x">>)}
  /\ audit \in {Accesses(n) : n \in AuditSizes}
  /\ verified = {[token |-> 1, hash |-> bcryptHash(PwP, 1)]}
  /\ pwChanges = {}
  /\ plain = {[user_id |-> 1, password |-> PwP]}
  /\ acked = {[id |-> <<"x">>, deleted |-> FALSE, config |-> callsigns[1]]}
  /\ PageFresh

AuditListNext ==
  \/ Ready /\ AllIdle /\ LoginStart(1, <<"a">>, PwP)
  \/ Ready /\ LoginResume(1)
  \/ Ready /\ AllIdle /\ \E op \in {"access", "download"}, t \in TokenInputs :
                           Scoped(op, t, <<"x">>, NULL)
  \/ Ready /\ AllIdle /\ \E t \in TokenInputs, limit \in LimitInputs : AuditList(t, limit)
  \/ Ready /\ AllIdle /\ LoginOpen /\ Tick
  \/ Flush

AuditListSpec == AuditListInit /\ [][AuditListNext]_vars

(***************************************************************************)
(* PwSpec: passwords.  Accounts are created, their passwords changed and   *)
(* tried at login, one request at a time, with passwords below the minimum *)
(* length, of the minimum length and beyond what bcrypt reads.             *)
(***************************************************************************)
LoginPasswords == {PwP, PwQ, PwLongX, PwLongY}

PwNext ==
  \/ Ready /\ AllIdle /\ \E p \in {PwShort, PwP} : CreateAdminCli(<<"a">>, p)
  \/ Ready /\ AllIdle /\ \E u \in {<<"a">>, <<"B">>, <<"y">>}, p \in LoginPasswords :
                           LoginStart(1, u, p)
  \/ Ready /\ LoginResume(1)
  \/ Ready /\ AllIdle /\ \E t \in Tokens, p \in {NULL, PwShort, PwP, PwLongX} :
                           CreateUserStart(1, t, <<"b">>, p, NULL, FALSE)
  \/ Ready /\ CreateUserResume(1)
  \/ Ready /\ AllIdle /\ \E t \in Tokens, p \in {PwShort, PwQ} :
                           ChangePasswordStart(1, t, PwP, p)
  \/ Ready /\ ChangePasswordResume(1)
  \/ Ready /\ AllIdle /\ \E t \in Tokens, id \in UserIds, p \in {PwShort, PwQ} :
                           UpdateUserStart(1, t, id, Body(p, FALSE, NULL, FALSE, FALSE))
  \/ Ready /\ UpdateUserResume(1)
  \/ Flush

PwSpec == Init /\ [][PwNext]_vars

(***************************************************************************)
(* AdminSpec: every /api/admin route, requested with an admin's token, a   *)
(* non-admin's token, a token that was never issued and no token; one      *)
(* request at a time.                                                      *)
(***************************************************************************)
AdminNext ==
  \/ Ready /\ AllIdle /\ CreateAdminCli(<<"a">>, PwP)
  \/ Ready /\ AllIdle /\ \E u \in {<<"a">>, <<"b">>} : LoginStart(1, u, PwP)
  \/ Ready /\ LoginResume(1)
  \/ Ready /\ AllIdle /\ \E t \in TokenInputs : ListUsers(t)
  \/ Ready /\ AllIdle /\ \E t \in TokenInputs :
                           CreateUserStart(1, t, <<"b">>, PwP, NULL, FALSE)
  \/ Ready /\ CreateUserResume(1)
  \/ Ready /\ AllIdle /\ \E t \in TokenInputs, id \in UserIds :
                           UpdateUserStart(1, t, id, Body(NULL, TRUE, <<"x">>, FALSE, FALSE))
  \/ Ready /\ AllIdle /\ \E t \in TokenInputs, id \in UserIds : DeleteUser(t, id)
  \/ Ready /\ AllIdle /\ \E t \in TokenInputs : ListCallsigns(t)
  \/ Ready /\ AllIdle /\ \E t \in TokenInputs : CreateCallsign(t, <<"X">>, <<"n">>, NULL, NULL)
  \/ Ready /\ AllIdle /\ \E t \in TokenInputs : UpdateCallsign(t, <<"X">>, <<"m">>, NULL, NULL)
  \/ Ready /\ AllIdle /\ \E t \in TokenInputs : DeleteCallsign(t, <<"x">>)
  \/ Ready /\ AllIdle /\ \E t \in TokenInputs, type \in {"card", "background"} :
                           AdminUpload(t, <<"X">>, type, <<"F">>)
  \/ Ready /\ AllIdle /\ \E t \in TokenInputs : AdminDeleteBackground(t, <<"X">>, <<"f">>)
  \/ Ready /\ AllIdle /\ \E t \in TokenInputs, limit \in {UNDEFINED, <<"1">>} :
                           AuditList(t, limit)
  \/ Ready /\ AllIdle /\ \E t \in Tokens : Scoped("access", t, <<"x">>, NULL)
  \/ Flush

AdminSpec == Init /\ [][AdminNext]_vars

(***************************************************************************)
(* StoreSpec: callsigns.json under every route that writes it.  The admin  *)
(* and the owner of x send mutations while logins and user creations await *)
(* bcrypt; a handler that reads and writes callsigns.json does both in one *)
(* synchronous run, so it is one step.                                     *)
(***************************************************************************)
ManageBodies ==
  {ManageBody(id, name, NULL, tp, at) :
     id \in {NULL, <<"y">>}, name \in {NULL, <<"m">>},
     tp \in {ABSENT, "moved"}, at \in {NULL, <<"1">>}}

StoreNext ==
  \/ Ready /\ CreateAdminCli(<<"a">>, PwP)
  \/ Ready /\ \E i \in Slots, u \in {<<"a">>, <<"b">>} : LoginStart(i, u, PwP)
  \/ Ready /\ \E i \in Slots : LoginResume(i)
  \/ Ready /\ \E i \in Slots, t \in Tokens : CreateUserStart(i, t, <<"b">>, PwP, <<"X">>, FALSE)
  \/ Ready /\ \E i \in Slots : CreateUserResume(i)
  \/ Ready /\ \E t \in Tokens, id \in CallsignInputs :
                CreateCallsign(t, id, <<"n">>, NULL, NULL)
  \/ Ready /\ \E t \in Tokens, cs \in {<<"X">>, <<"y">>} :
                UpdateCallsign(t, cs, <<"k">>, NULL, NULL)
  \/ Ready /\ \E t \in Tokens, cs \in {<<"X">>, <<"y">>} : DeleteCallsign(t, cs)
  \/ Ready /\ \E t \in TokenInputs : ManageGet(t)
  \/ Ready /\ \E t \in TokenInputs, body \in ManageBodies : ManageUpdate(t, body)
  \/ Flush

StoreSpec == Init /\ [][StoreNext]_vars

\* The event loop keeps taking events: a step that can be taken is taken.
StoreLiveSpec == StoreSpec /\ WF_vars(StoreNext)

(***************************************************************************)
(* SiteSpec: what a visitor, a callsign owner and the admin can read.  The *)
(* admin sets up callsigns, card files and the owner's account; every      *)
(* reading route is then called with every kind of token, one request at a *)
(* time.                                                                   *)
(***************************************************************************)
UrlInputs ==
  {Page(<<"index.html">>), CardPath(<<"x">>), BgPath(<<"x">>, <<"f">>), CardPath(<<"y">>)}

ReadRoutes == {"backgrounds", "card.png", "background"}

SiteNext ==
  \/ Ready /\ AllIdle /\ CreateAdminCli(<<"a">>, PwP)
  \/ Ready /\ AllIdle /\ \E u \in {<<"a">>, <<"b">>} : LoginStart(1, u, PwP)
  \/ Ready /\ LoginResume(1)
  \/ Ready /\ AllIdle /\ \E t \in Tokens : CreateUserStart(1, t, <<"b">>, PwP, <<"X">>, FALSE)
  \/ Ready /\ CreateUserResume(1)
  \/ Ready /\ AllIdle /\ \E t \in Tokens, id \in {<<"X">>, <<"y">>} :
                           CreateCallsign(t, id, <<"n">>, NULL, NULL)
  \/ Ready /\ AllIdle /\ \E t \in Tokens, type \in {"card", "background"} :
                           AdminUpload(t, <<"X">>, type, <<"F">>)
  \/ Ready /\ AllIdle /\ \E op \in ReadRoutes, t \in TokenInputs, cs \in {<<"x">>, <<"y">>} :
                           Scoped(op, t, cs, <<"f">>)
  \/ Ready /\ AllIdle /\ \E t \in TokenInputs : ManageGet(t)
  \/ Ready /\ AllIdle /\ \E op \in PublicRoutes, t \in TokenInputs,
                            cs \in {<<"x">>, <<"y">>, <<"demo">>} : Public(op, t, cs)
  \/ Ready /\ AllIdle /\ \E t \in TokenInputs, url \in UrlInputs : Get(t, url)
  \/ Flush

SiteSpec == Init /\ [][SiteNext]_vars

(***************************************************************************)
(* SweepSpec: the clock, the hourly sweep and the requests whose outcome   *)
(* depends on session rows.  Logins are spread over two days, so that one  *)
(* user's session can outlive another's.                                   *)
(***************************************************************************)
SweepNext ==
  \/ Ready /\ AllIdle /\ \E u \in {<<"a">>, <<"b">>} : CreateAdminCli(u, PwP)
  \/ Ready /\ AllIdle /\ clock < (LoginDays + 1) * TicksPerDay
           /\ \E u \in {<<"a">>, <<"b">>} : LoginStart(1, u, PwP)
  \/ Ready /\ LoginResume(1)
  \/ Ready /\ AllIdle /\ \E t \in TokenInputs : Me(t)
  \/ Ready /\ AllIdle /\ \E t \in Tokens, id \in UserIds : DeleteUser(t, id)
  \/ Ready /\ AllIdle /\ Tick
  \/ Ready /\ AllIdle /\ cleanExpiredSessions
  \/ Flush

SweepSpec == Init /\ [][SweepNext]_vars

(***************************************************************************)
(* FileSpec: card files of two callsigns.  The admin uploads for both; the *)
(* owner of x uploads and deletes through the /api/manage routes with file *)
(* names that contain ".." and "/".                                        *)
(***************************************************************************)
FilenameInputs ==
  {<<"f">>, <<"g">>,
   <<".", ".", "/", "card.png">>,
   <<".", ".", "/", ".", ".", "/", "y", "/", "card.png">>,
   <<".", ".", "/", ".", ".", "/", "y", "/", "backgrounds", "/", "f">>,
   <<".", ".", "/", ".", ".", "/", ".", ".", "/", "f">>}

FileNext ==
  \/ Ready /\ AllIdle /\ CreateAdminCli(<<"a">>, PwP)
  \/ Ready /\ AllIdle /\ \E u \in {<<"a">>, <<"b">>} : LoginStart(1, u, PwP)
  \/ Ready /\ LoginResume(1)
  \/ Ready /\ AllIdle /\ \E t \in Tokens, cs \in {NULL, <<"X">>} :
                           CreateUserStart(1, t, <<"b">>, PwP, cs, FALSE)
  \/ Ready /\ CreateUserResume(1)
  \/ Ready /\ AllIdle /\ \E t \in Tokens, id \in {<<"X">>, <<"y">>} :
                           CreateCallsign(t, id, <<"n">>, NULL, NULL)
  \/ Ready /\ AllIdle /\ \E t \in Tokens, cs \in {<<"X">>, <<"y">>},
                            type \in {"card", "background"} : AdminUpload(t, cs, type, <<"F">>)
  \/ Ready /\ AllIdle /\ \E t \in TokenInputs, type \in {"card", "background"},
                            name \in {NULL, <<"g">>, <<".", ".", "/", "F">>} :
                           ManageUpload(t, type, name)
  \/ Ready /\ AllIdle /\ \E t \in TokenInputs, name \in FilenameInputs :
                           ManageDeleteBackground(t, name)
  \/ Flush

FileSpec == Init /\ [][FileNext]_vars

(***************************************************************************)
(* PrivSpec: the admin changes a user's callsign and admin flag while the  *)
(* user holds sessions; admin routes and callsign-scoped routes are then   *)
(* called with every token.                                                *)
(***************************************************************************)
PrivBodies ==
  {Body(NULL, TRUE, <<"y">>, FALSE, FALSE), Body(NULL, TRUE, NULL, FALSE, FALSE),
   Body(NULL, FALSE, NULL, TRUE, FALSE), Body(NULL, FALSE, NULL, TRUE, TRUE)}

PrivNext ==
  \/ Ready /\ AllIdle /\ CreateAdminCli(<<"a">>, PwP)
  \/ Ready /\ AllIdle /\ \E u \in {<<"a">>, <<"b">>} : LoginStart(1, u, PwP)
  \/ Ready /\ LoginResume(1)
  \/ Ready /\ AllIdle /\ \E t \in Tokens : CreateUserStart(1, t, <<"b">>, PwP, <<"X">>, FALSE)
  \/ Ready /\ CreateUserResume(1)
  \/ Ready /\ AllIdle /\ \E t \in Tokens, id \in {<<"X">>, <<"y">>} :
                           CreateCallsign(t, id, <<"n">>, NULL, NULL)
  \/ Ready /\ AllIdle /\ \E t \in Tokens, id \in UserIds, body \in PrivBodies :
                           UpdateUserStart(1, t, id, body)
  \/ Ready /\ AllIdle /\ \E t \in TokenInputs : ListUsers(t)
  \/ Ready /\ AllIdle /\ \E t \in TokenInputs : ListCallsigns(t)
  \/ Ready /\ AllIdle /\ \E op \in ReadRoutes, t \in TokenInputs, cs \in {<<"x">>, <<"Y">>} :
                           Scoped(op, t, cs, <<"f">>)
  \/ Flush

PrivSpec == Init /\ [][PrivNext]_vars

(***************************************************************************)
(* PageSpec: one page.  localStorage and the browser language are whatever *)
(* the visitor has; init() and setLanguage() are called in any order and   *)
(* their loads finish in any order, each succeeding or failing.            *)
(***************************************************************************)
LangInputs == {"de", "en", "fr"}

PageInit ==
  /\ ServerInit
  /\ currentLang = DEFAULT_LANG
  /\ translations = EmptyObject
  /\ initialized = FALSE
  /\ localStorage \in {NoItem} \cup LangInputs
  /\ browserLang \in LangInputs
  /\ calls = [c \in CallSlots |-> NoCall]
  /\ returned = NoReturn

Returned == returned = NoReturn

PageNext ==
  \/ Returned /\ \E c \in CallSlots : InitStart(c)
  \/ Returned /\ \E c \in CallSlots, ok \in BOOLEAN : InitResume(c, ok)
  \/ Returned /\ \E c \in CallSlots, ok \in BOOLEAN : InitFallbackResume(c, ok)
  \/ Returned /\ \E c \in CallSlots, lang \in LangInputs : SetLanguageStart(c, lang)
  \/ Returned /\ \E c \in CallSlots, ok \in BOOLEAN : SetLanguageResume(c, ok)
  \/ Collect

PageSpec == PageInit /\ [][PageNext]_vars

(***************************************************************************)
(* Properties.                                                             *)
(***************************************************************************)
EqualIgnoringCase(a, b) == toLowerCase(a) = toLowerCase(b)
Owns(session, requested) ==
  session.callsign # NULL /\ EqualIgnoringCase(session.callsign, requested)
GuardAnswer(r) == r.status = 404 /\ r.body = "Not found"

\* C1: on every callsign-scoped protected route, a request with a valid
\* session passes the guard iff the session user is admin or the user's
\* callsign equals the requested one ignoring case; a non-admin user without
\* a callsign never passes.
C1_GuardRule ==
  (last.op \in ScopedRoutes /\ last.status # 401) =>
    LET session == validateSession(last.req.token)
    IN (~GuardAnswer(last)) <=> (session.is_admin \/ Owns(session, last.req.callsign))

C1_Witness ==
  /\ last.op \in ScopedRoutes
  /\ last.status = 200
  /\ last.req.callsign = <<"X">>
  /\ ~validateSession(last.req.token).is_admin
  /\ validateSession(last.req.token).callsign = <<"x">>

\* C2: when the guard denies (valid session, non-admin, callsign mismatch),
\* every callsign-scoped protected route answers 404 "Not found", and that
\* answer is the same for every content of callsigns.json and of the card
\* directory (the callsign, its card and its background existing or not).
AltConfigs ==
  {<<>>} \cup {<<[id |-> id, name |-> <<"n">>, qrzLink |-> <<"q">>,
                  textPositions |-> defaultPositions, createdAt |-> toISOString(0)]>> :
               id \in {<<"x">>, <<"y">>}}
AltFiles ==
  {{}} \cup UNION {{{CardPath(d)}, {BgDir(d)}, {BgDir(d), BgPath(d, <<"f">>)},
                    {CardPath(d), BgDir(d), BgPath(d, <<"f">>)}} : d \in {<<"x">>, <<"y">>}}

C2_DenyLooksLikeAbsence ==
  (last.op \in ScopedRoutes /\ last.status # 401
     /\ ~validateSession(last.req.token).is_admin
     /\ ~Owns(validateSession(last.req.token), last.req.callsign))
    => /\ GuardAnswer(last)
       /\ \A list \in AltConfigs, fs \in AltFiles :
            LET there == Route(last.op, validateSession(last.req.token),
                               last.req.callsign, last.req.filename, list, fs)
            IN there.status = last.status /\ there.body = last.body

C2_Witness ==
  /\ last.op = "card.png"
  /\ GuardAnswer(last)
  /\ CardPath(toLowerCase(last.req.callsign)) \in files
  /\ FindIndex(callsigns, toLowerCase(last.req.callsign)) # 0

\* C3: validateSession returns a session iff the token's row exists, its
\* expiry has not passed and its user exists; a token never issued, an
\* expired one, a revoked one and one whose user was deleted all resolve to
\* nothing, and requireAuth answers each of them with the same 401.
NotExpired(s) == clock <= TimeOf(s.expires_at)
Live(token) ==
  \E s \in sessions : s.token = token /\ NotExpired(s) /\ UserRows(s.user_id) # {}

C3_ValidIffLive ==
  /\ \A t \in TokenInputs : (validateSession(t) # NoSession) <=> Live(t)
  /\ (last.op = "me" /\ ~Live(last.req.token)) => last = Unauthorized("me", last.req)

\* C4: a token issued at time t resolves to its session at every time up to
\* t + 7 days and to nothing at every time after t + 7 days.
C4_ExpiresAfterSevenDays ==
  \A s \in sessions :
    IF clock <= TimeOf(s.created_at) + SessionTtl
    THEN validateSession(s.token) # NoSession
    ELSE validateSession(s.token) = NoSession

\* C5: a session row never changes after its creation (its expires_at is not
\* extended by use), and an issued token that resolves to nothing resolves to
\* nothing in every later state, whatever operation follows.
Issued == 1..(nextToken - 1)

C5_NoWayBack ==
  [][/\ \A s \in sessions : \A n \in sessions' : n.token = s.token => n = s
     /\ \A t \in Issued : validateSession(t) = NoSession => validateSession(t)' = NoSession
    ]_vars

C5_Witness ==
  /\ last = Unauthorized("me", [token |-> 1])
  /\ \E s \in sessions : /\ s.token = 1
                          /\ UserRows(s.user_id) # {}
                          /\ s.expires_at = toISOString(TimeOf(s.created_at) + SessionTtl)
                          /\ clock > TimeOf(s.expires_at)

\* C6: with no other request interleaving, a successful change-password made
\* with token K by user U leaves exactly one valid session for U, namely K;
\* every other token of U that was valid before resolves to nothing, and the
\* sessions of other users are unchanged.
C6_OnlyActingSessionSurvives ==
  (last.op = "change-password" /\ last.status = 200) =>
    LET K == last.req.token
        U == last.out.user_id
        before == last.out.before
    IN /\ {s.token : s \in {r \in sessions : r.user_id = U}} = {K}
       /\ {t \in TokenInputs : validateSession(t) # NoSession
                               /\ validateSession(t).user_id = U} = {K}
       /\ \A s \in before : (s.user_id = U /\ s.token # K)
                              => validateSession(s.token) = NoSession
       /\ {s \in sessions : s.user_id # U} = {s \in before : s.user_id # U}
       /\ {s \in sessions : s.token = K} = {s \in before : s.token = K}

C6_Witness ==
  /\ last.op = "change-password" /\ last.status = 200
  /\ \E s \in last.out.before : s.user_id = last.out.user_id /\ s.token # last.req.token
  /\ validateSession(last.req.token) # NoSession

\* C7: under every interleaving of change-password for user U with logins and
\* logouts of U, once change-password has responded no session of U exists
\* that was granted by verifying the old password, other than the acting one.
C7_NoSessionFromOldPassword ==
  \A c \in pwChanges : \A s \in sessions :
    (s.user_id = c.user_id
       /\ \E v \in verified : v.token = s.token /\ v.hash = c.oldHash)
      => s.token = c.keep

\* C8: in every reachable state, including those reached by interleaving
\* create-user and update-user requests at their awaits, at most one user
\* holds any given non-null callsign.
C8_CallsignHeldByOneUser ==
  \A u, v \in users : (u.callsign # NULL /\ u.callsign = v.callsign) => u = v

\* C9: assigning, at user creation or by update, a callsign already bound to
\* a different user binds it to no second user and, when the request is
\* otherwise acceptable, is answered 409; updating a user's callsign to the
\* value that user already holds answers 200 and leaves the stored user
\* unchanged.
Answered(op) == last = NoResponse /\ last'.op = op
ByAdmin(req) == validateSession(req.token) # NoSession /\ validateSession(req.token).is_admin
Holders(us, callsign) == {u.id : u \in {v \in us : v.callsign = toLowerCase(callsign)}}
Bindings(us) == {<<u.id, u.callsign>> : u \in us}

C9_CreateConflict ==
  LET req == last'.req IN
  (Answered("create-user") /\ req.callsign # NULL /\ Holders(users, req.callsign) # {})
    => /\ users' = users
       /\ (ByAdmin(req) /\ req.username # NULL
             /\ Len(req.password) >= MIN_PASSWORD_LENGTH
             /\ UsersNamed(toLowerCase(req.username)) = {}
             /\ getCallsignConfig(loadCallsigns, req.callsign) # 0)
            => (last'.status = 409
                  /\ last'.body = "Callsign already assigned to another user")

C9_UpdateConflict ==
  LET req == last'.req IN
  (Answered("update-user") /\ req.body.hasCallsign /\ req.body.callsign # NULL
     /\ Holders(users, req.body.callsign) \ {req.id} # {})
    => /\ Bindings(users') = Bindings(users)
       /\ (ByAdmin(req) /\ UserRows(req.id) # {}
             /\ (req.body.password = NULL
                   \/ Len(req.body.password) >= MIN_PASSWORD_LENGTH))
            => (last'.status = 409
                  /\ last'.body = "Callsign already assigned to another user")

C9_SameValueUpdate ==
  LET req == last'.req IN
  (Answered("update-user") /\ ByAdmin(req)
     /\ req.body.hasCallsign /\ req.body.callsign # NULL
     /\ req.id \in Holders(users, req.body.callsign)
     /\ req.body.password = NULL /\ ~req.body.hasIsAdmin)
    => (last'.status = 200 /\ users' = users)

SameName(us, username) == {u \in us : EqualIgnoringCase(u.username, username)}

C10_Unique ==
  /\ \A u, v \in users' : EqualIgnoringCase(u.username, v.username) => u = v
  /\ \A u \in users' : u.username = toLowerCase(u.username)

C10_DuplicateCreate ==
  LET req == last'.req IN
  (Answered("create-user") /\ ByAdmin(req) /\ req.username # NULL
     /\ Len(req.password) >= MIN_PASSWORD_LENGTH
     /\ SameName(users, req.username) # {})
    => (last'.status = 409 /\ last'.body = "Username already exists" /\ users' = users)

C10_LoginAnyCasing ==
  LET req == last'.req IN
  (Answered("login") /\ req.username # NULL)
    => \A u \in SameName(users, req.username) :
         bcryptCompare(req.password, u.password_hash)
           => (last'.status = 200 /\ last'.out.username = u.username
                 /\ \E s \in sessions' : s.token = last'.out.token /\ s.user_id = u.id)

C10_UsernamesCaseInsensitive ==
  [][C10_Unique /\ C10_DuplicateCreate /\ C10_LoginAnyCasing]_vars

C10_Witness ==
  /\ last.op = "create-user" /\ last.status = 409
  /\ last.body = "Username already exists"
  /\ last.req.username = <<"A">>
  /\ UsersNamed(<<"a">>) # {} /\ UsersNamed(<<"A">>) = {}

\* C11: after create-user succeeds for a username and a password of length
\* at least 8, a login with that username and that password succeeds and
\* issues a token, and a login with any other password is answered 401 and
\* issues no token.
PasswordOf(u) == {p.password : p \in {q \in plain : q.user_id = u.id}}

C11_LoginStep ==
  LET req == last'.req IN
  (Answered("login") /\ req.username # NULL /\ req.password # NULL)
    => \A u \in LoginLookup(req.username) :
         IF req.password \in PasswordOf(u)
         THEN /\ last'.status = 200
              /\ \E s \in sessions' \ sessions :
                   s.token = last'.out.token /\ s.user_id = u.id
         ELSE /\ last'.status = 401
              /\ sessions' = sessions /\ nextToken' = nextToken

C11_OnlyThePasswordLogsIn == [][C11_LoginStep]_vars

\* C12: a password shorter than 8 characters is answered 400 by create-user,
\* by admin update-user and by change-password, and the request leaves users
\* and sessions unchanged; no stored password hash was made from a password
\* shorter than 8 characters.
C12_Rejections ==
  LET req == last'.req IN
  /\ (Answered("create-user") /\ ByAdmin(req) /\ Len(req.password) < MIN_PASSWORD_LENGTH)
       => (last'.status = 400 /\ users' = users /\ sessions' = sessions)
  /\ (Answered("update-user") /\ ByAdmin(req) /\ UserRows(req.id) # {}
        /\ req.body.password # NULL /\ Len(req.body.password) < MIN_PASSWORD_LENGTH)
       => (last'.status = 400 /\ users' = users /\ sessions' = sessions)
  /\ (Answered("change-password") /\ validateSession(req.token) # NoSession
        /\ Len(req.newPassword) < MIN_PASSWORD_LENGTH)
       => (last'.status = 400 /\ users' = users /\ sessions' = sessions)

C12_NoShortHash ==
  /\ \A p \in plain' : Len(p.password) >= MIN_PASSWORD_LENGTH
  /\ \A u \in users' : /\ PasswordOf(u)' # {}
                       /\ \A p \in PasswordOf(u)' : bcryptCompare(p, u.password_hash)

C13_FailedLogin ==
  LET req == last'.req
      known == LoginLookup(req.username) IN
  (Answered("login") /\ req.username # NULL /\ req.password # NULL
     /\ (known = {} \/ \E u \in known : ~bcryptCompare(req.password, u.password_hash)))
    => /\ last'.status = 401 /\ last'.body = "Invalid credentials"
       /\ last'.out = [a |-> 0]
       /\ [last' EXCEPT !.req = 0] = [UnknownUser(0) EXCEPT !.req = 0]
       /\ sessions' = sessions
       /\ users' = users

C13_OneInvalidCredentialsAnswer == [][C13_FailedLogin]_vars

C13_Witness ==
  /\ last = WrongPassword(last.req)
  /\ \E u \in LoginLookup(last.req.username) :
       ~bcryptCompare(last.req.password, u.password_hash)

\* C14: for any user U other than the acting admin, with or without
\* sessions, DELETE /api/admin/users/U removes U and all sessions of U in one
\* step: afterwards U does not exist, no session row references U and every
\* token of U resolves to nothing.
C14_DeleteStep ==
  LET req == last'.req IN
  (Answered("delete-user") /\ ByAdmin(req) /\ UserRows(req.id) # {}
     /\ req.id # validateSession(req.token).user_id)
    => /\ last'.status = 200
       /\ \A u \in users' : u.id # req.id
       /\ \A s \in sessions' : s.user_id # req.id
       /\ \A s \in sessions : s.user_id = req.id => validateSession(s.token)' = NoSession
       /\ sessions' = {s \in sessions : s.user_id # req.id}

C14_DeleteRemovesUserAndSessions == [][C14_DeleteStep]_vars

\* C15: every /api/admin operation requested with a valid non-admin session
\* is answered 403 and leaves users, sessions, callsign configs, files and the
\* audit log unchanged; requested without a valid session it is answered 401
\* (the authentication check precedes the admin check) and changes nothing.
AdminOps ==
  {"list-users", "create-user", "update-user", "delete-user", "list-callsigns",
   "create-callsign", "update-callsign", "delete-callsign", "admin-upload",
   "admin-delete-background", "audit"}

C15_AdminStep ==
  LET req == last'.req
      session == validateSession(req.token)
      untouched == /\ users' = users /\ sessions' = sessions
                   /\ callsigns' = callsigns /\ files' = files /\ audit' = audit
  IN (last = NoResponse /\ last'.op \in AdminOps)
       => /\ session = NoSession
               => (last'.status = 401 /\ last'.body = "Unauthorized" /\ untouched)
          /\ (session # NoSession /\ ~session.is_admin)
               => (last'.status = 403 /\ last'.body = "Admin access required" /\ untouched)

C15_AdminRoutesNeedAdmin == [][C15_AdminStep]_vars

C15_Witness ==
  /\ last.op = "admin-delete-background" /\ last.status = 403
  /\ validateSession(last.req.token) # NoSession
  /\ BgPath(<<"x">>, <<"f">>) \in files

\* C16: every successful login, every failed login, every password change
\* and every admin mutation (user create, update, delete; callsign create,
\* update, delete) appends exactly one audit entry, whose action is one of a
\* fixed set of values.
AuditActions ==
  {"login", "login_failed", "password_changed", "user_created", "user_updated",
   "user_deleted", "callsign_created", "callsign_updated", "callsign_deleted",
   "generator_access", "generator_access_denied", "card_generated"}

AdminMutations ==
  {"create-user", "update-user", "delete-user",
   "create-callsign", "update-callsign", "delete-callsign"}

C16_AuditedStep ==
  (/\ last = NoResponse
   /\ \/ last'.op = "login" /\ last'.status \in {200, 401}
      \/ last'.op = "change-password" /\ last'.status = 200
      \/ last'.op \in AdminMutations /\ last'.status \in {200, 201})
    => /\ Len(audit') = Len(audit) + 1
       /\ SubSeq(audit', 1, Len(audit)) = audit
       /\ audit'[Len(audit')].action \in AuditActions

C16_EveryEventAudited == [][C16_AuditedStep]_vars

\* C17: a failure to write the audit row never changes the outcome of the
\* request: generator access and card download answer with the status and
\* body of their route whether or not the insert succeeds.
C17_OutcomeStep ==
  (/\ last = NoResponse
   /\ last'.op \in {"access", "download"}
   /\ validateSession(last'.req.token) # NoSession)
    => LET req == last'.req
           res == Route(last'.op, validateSession(req.token), req.callsign,
                        req.filename, loadCallsigns, files)
       IN /\ last'.status = res.status
          /\ last'.body = res.body
          /\ last'.out = res.out

C17_AuditFailureSwallowed == [][C17_OutcomeStep]_vars

\* C18: the audit log is append-only: no step modifies or removes an entry
\* already written, so the log before a step is a prefix of the log after it.
C18_PrefixStep ==
  /\ Len(audit') >= Len(audit)
  /\ SubSeq(audit', 1, Len(audit)) = audit

C18_AuditAppendOnly == [][C18_PrefixStep]_vars

C18_Witness ==
  /\ Len(audit) >= 2
  /\ last.op \in {"access", "download"}
  /\ last.status = 200
  /\ audit[Len(audit)].action \in {"generator_access", "card_generated"}

\* C19: whatever the limit query parameter (absent, non-numeric, zero,
\* negative, within 1..1000, above 1000), the audit listing returns at most
\* 1000 rows; at most limit rows when 1 <= limit <= 1000, and at most 100
\* rows when the parameter is absent.
C19_ListingCapped ==
  (last.op = "audit" /\ last.status = 200)
    => LET asked == parseInt(last.req.limit) IN
       /\ Len(last.out) <= MAX_LIMIT
       /\ (asked # NaN /\ asked.v >= 1 /\ asked.v <= MAX_LIMIT) => Len(last.out) <= asked.v
       /\ last.req.limit = UNDEFINED => Len(last.out) <= DEFAULT_LIMIT

C21_LogoutStep ==
  (Answered("logout") /\ last'.status = 200)
    => LET K == last'.req.token IN
       /\ \E s \in sessions : s.token = K
       /\ sessions' = {s \in sessions : s.token # K}
       /\ \A t \in TokenInputs :
            validateSession(t)' = IF t = K THEN NoSession ELSE validateSession(t)
       /\ users' = users
       /\ callsigns' = callsigns

C21_LogoutRemovesOneSession == [][C21_LogoutStep]_vars

C21_Witness ==
  /\ last.op = "logout" /\ last.status = 200
  /\ \E s \in sessions, u \in users :
       /\ s.token # last.req.token
       /\ s.user_id = u.id
       /\ verified # {}
       /\ \A v \in verified : v.hash = u.password_hash
       /\ validateSession(s.token) # NoSession

\* C23: every password change destroys the user's other sessions: after an
\* admin sets a new password for user U through PUT /api/admin/users/:id,
\* every session of U that existed before the change, other than the acting
\* session, resolves to nothing.
C23_AdminChangeStep ==
  (/\ Answered("update-user")
   /\ last'.status = 200
   /\ last'.req.body.password # NULL)
    => \A s \in sessions :
         (s.user_id = last'.req.id /\ s.token # last'.req.token)
           => validateSession(s.token)' = NoSession

C23_AdminPasswordChangeRevokes == [][C23_AdminChangeStep]_vars

\* C24: in every state reached by callsign create, update and delete
\* requests no two callsign configs have ids that are equal ignoring case and
\* every stored id is lowercase; a create request whose id equals an existing
\* id ignoring case answers 409 and leaves the store unchanged.
SameId(list, id) == {k \in 1..Len(list) : EqualIgnoringCase(list[k].id, id)}

C24_UniqueIds ==
  /\ \A i, j \in 1..Len(callsigns') :
       EqualIgnoringCase(callsigns'[i].id, callsigns'[j].id) => i = j
  /\ \A i \in 1..Len(callsigns') : callsigns'[i].id = toLowerCase(callsigns'[i].id)

C24_DuplicateCreate ==
  LET req == last'.req IN
  (Answered("create-callsign") /\ ByAdmin(req) /\ req.id # NULL /\ req.name # NULL
     /\ SameId(callsigns, req.id) # {})
    => (last'.status = 409 /\ last'.body = "Callsign already exists"
          /\ callsigns' = callsigns /\ files' = files)

C24_CallsignIdsCaseInsensitive == [][C24_UniqueIds /\ C24_DuplicateCreate]_vars

C24_Witness ==
  /\ last.op = "create-callsign" /\ last.status = 409
  /\ last.req.id = <<"X">>
  /\ Len(callsigns) = 2
  /\ \E k \in 1..Len(callsigns) : callsigns[k].id = <<"x">> /\ callsigns[k].name = <<"k">>

\* C25: two concurrent callsign-config mutations for different callsigns can
\* interleave their read-modify-write of the whole document so that both
\* answer success and the persisted document lacks one of the two changes.
\* LostUpdate is that state: a change was acknowledged, no later change of
\* the same callsign was, and callsigns.json does not hold it.
LostUpdate ==
  \E a \in acked :
    IF a.deleted
    THEN \E k \in 1..Len(callsigns) : callsigns[k].id = a.id
    ELSE \A k \in 1..Len(callsigns) : callsigns[k] # a.config

C26_ManageStep ==
  Answered("manage-update") =>
    LET session == validateSession(last'.req.token) IN
    /\ (session # NoSession /\ session.callsign = NULL)
         => (last'.status = 403 /\ callsigns' = callsigns)
    /\ last'.status # 200 => callsigns' = callsigns
    /\ last'.status = 200 =>
         /\ session # NoSession /\ session.callsign # NULL
         /\ Len(callsigns') = Len(callsigns)
         /\ \A k \in 1..Len(callsigns) :
              /\ callsigns'[k].id = callsigns[k].id
              /\ callsigns'[k].createdAt = callsigns[k].createdAt
              /\ callsigns[k].id # toLowerCase(session.callsign)
                   => callsigns'[k] = callsigns[k]

C26_OwnerUpdateIsScoped == [][C26_ManageStep]_vars

C26_Witness ==
  /\ last.op = "manage-update" /\ last.status = 200
  /\ last.req.body.id = <<"y">> /\ last.req.body.createdAt # NULL
  /\ last.req.body.name = <<"m">> /\ last.req.body.textPositions = "moved"
  /\ Len(callsigns) = 2
  /\ \E k \in 1..Len(callsigns) : callsigns[k].id = <<"y">>
  /\ last.out.id = <<"x">> /\ last.out.name = <<"m">>

(***************************************************************************)
(* C27: the onboarding sequence works step by step.  The admin's           *)
(* create-callsign for an id not yet stored answers 201 and stores it; the *)
(* admin's create-user for a new username, bound to a stored and           *)
(* unassigned callsign, answers 201 and stores the bound user; that user's *)
(* login with the right password answers 200 with a token of a session of  *)
(* the user; GET /api/manage/callsign with that session answers 200 with   *)
(* the configuration whose id is the user's callsign; and                  *)
(* GET /api/cards/<other>/card.png with that session answers 404.          *)
(***************************************************************************)
C27_OnboardingStep ==
  LET req == last'.req
      session == validateSession(req.token)
      byAdmin == session # NoSession /\ session.is_admin
      byOwner == session # NoSession /\ ~session.is_admin /\ session.callsign # NULL IN
  /\ (Answered("create-callsign") /\ byAdmin /\ req.id # NULL /\ req.name # NULL
        /\ getCallsignConfig(callsigns, toLowerCase(req.id)) = 0)
       => /\ last'.status = 201
          /\ getCallsignConfig(callsigns', toLowerCase(req.id)) # 0
  /\ (Answered("create-user") /\ byAdmin /\ req.callsign # NULL
        /\ UsersNamed(toLowerCase(req.username)) = {}
        /\ getCallsignConfig(callsigns, req.callsign) # 0
        /\ UsersWithCallsign(toLowerCase(req.callsign)) = {})
       => /\ last'.status = 201
          /\ \E u \in users' : /\ u.username = toLowerCase(req.username)
                               /\ u.callsign = toLowerCase(req.callsign)
                               /\ ~u.is_admin
  /\ (Answered("login")
        /\ \E u \in users : /\ u.username = toLowerCase(req.username)
                            /\ bcryptCompare(req.password, u.password_hash))
       => /\ last'.status = 200
          /\ \E s \in sessions', u \in users :
               /\ s.token = last'.out.token
               /\ s.user_id = u.id
               /\ u.username = toLowerCase(req.username)
               /\ last'.out.callsign = u.callsign
  /\ (Answered("manage-get") /\ byOwner
        /\ getCallsignConfig(callsigns, session.callsign) # 0)
       => /\ last'.status = 200
          /\ last'.out.id = session.callsign
          /\ \E k \in 1..Len(callsigns) : callsigns[k] = last'.out
  /\ (Answered("card.png") /\ byOwner
        /\ toLowerCase(req.callsign) # session.callsign)
       => last'.status = 404

C27_OnboardingSequence == [][C27_OnboardingStep]_vars

\* the owner of x, created by the admin and logged in, asked for y's card
C27_Witness ==
  /\ last.op = "card.png"
  /\ last.status = 404
  /\ last.req.callsign = <<"y">>
  /\ validateSession(last.req.token) # NoSession
  /\ validateSession(last.req.token).username = <<"b">>
  /\ validateSession(last.req.token).callsign = <<"x">>
  /\ getCallsignConfig(callsigns, <<"x">>) # 0
  /\ getCallsignConfig(callsigns, <<"y">>) # 0

(***************************************************************************)
(* C29: a caller who is neither admin nor the owner of callsign C, a       *)
(* caller without a session included, gets on every route that takes a     *)
(* callsign the response the route would give over any other store, in     *)
(* particular over one where C does not exist: same status, same body,     *)
(* same payload.                                                           *)
(***************************************************************************)
C29_ExistenceHidden ==
  LET session == validateSession(last.req.token)
      outsider == \/ session = NoSession
                  \/ ~session.is_admin /\ ~Owns(session, last.req.callsign) IN
  /\ (last.op \in PublicRoutes /\ outsider)
       => \A list \in AltConfigs, fs \in AltFiles :
            LET there == PublicRoute(last.op, last.req.callsign, list, fs) IN
            there.status = last.status /\ there.body = last.body /\ there.out = last.out
  /\ (last.op \in ScopedRoutes /\ last.status # 401 /\ outsider)
       => \A list \in AltConfigs, fs \in AltFiles :
            LET there == Route(last.op, session, last.req.callsign,
                               last.req.filename, list, fs) IN
            there.status = last.status /\ there.body = last.body /\ there.out = last.out

(***************************************************************************)
(* C30: whenever a response carries the content of a card template or of a *)
(* background image stored under a callsign, the request came with a valid *)
(* session whose user is admin or bound to that callsign, and it was       *)
(* answered by one of the two guarded card routes.                         *)
(***************************************************************************)
C30_CardContentNeedsSession ==
  (last.body = "file" /\ last.out.kind \in {"card.png", "background"})
    => LET session == validateSession(last.req.token) IN
       /\ last.op \in {"card.png", "background"}
       /\ session # NoSession
       /\ session.is_admin \/ Owns(session, last.out.dir)
       /\ last.out \in files

\* the owner of x read the background stored under x
C30_Witness ==
  /\ last.op = "background"
  /\ last.body = "file"
  /\ last.out = BgPath(<<"x">>, <<"f">>)
  /\ validateSession(last.req.token) # NoSession
  /\ ~validateSession(last.req.token).is_admin

(***************************************************************************)
(* C22: the sweep cannot be observed.  A sweep removes only session rows   *)
(* that validateSession rejects and leaves the result of validateSession   *)
(* for every token as it was; and no request is answered differently       *)
(* because of rows the sweep would have removed: DELETE of a user is       *)
(* refused for the user's session rows only while one of them still        *)
(* resolves.  Both are needed for validateSession to return the same in a  *)
(* run with sweeps as in the run of the same requests without them.        *)
(***************************************************************************)
C22_SweepStep ==
  (sessions' # sessions /\ users' = users /\ clock' = clock /\ last' = NoResponse)
    => /\ sessions' \subseteq sessions
       /\ \A s \in sessions \ sessions' : validateSession(s.token) = NoSession
       /\ \A t \in TokenInputs :
            (validateSession(t) = NoSession)
              <=> ~\E s \in sessions', u \in users :
                      /\ s.token = t
                      /\ s.user_id = u.id
                      /\ TextGreater(s.expires_at, datetime(clock))

C22_DeadRowsStep ==
  (Answered("delete-user") /\ last'.status = 500)
    => \E s \in sessions : /\ s.user_id = last'.req.id
                           /\ validateSession(s.token) # NoSession

C22_SweepUnobservable == [][C22_SweepStep /\ C22_DeadRowsStep]_vars

(***************************************************************************)
(* C28: every request is answered.  Whenever a handler has run to its end, *)
(* under any interleaving of the handlers in flight, it has sent a         *)
(* response with an HTTP status: it did not end in a rejection that        *)
(* nothing catches and that leaves the client without a response.  The    *)
(* command-line script that creates the admin is not a request.           *)
(***************************************************************************)
C28_EveryRequestAnswered ==
  (last # NoResponse /\ last.op # "create-admin")
    => last.status \in 200..599 /\ last.body # "unhandled rejection"

(***************************************************************************)
(* C31: a non-admin user's upload or background delete through the        *)
(* /api/manage routes creates or removes only files inside that user's own *)
(* callsign directory, whatever the file name, names with ".." or "/"      *)
(* included.                                                               *)
(***************************************************************************)
C31_OwnFilesStep ==
  LET session == validateSession(last'.req.token) IN
  ((Answered("manage-upload") \/ Answered("manage-delete-background"))
      /\ session # NoSession /\ ~session.is_admin)
    => \A f \in (files' \ files) \cup (files \ files') :
         session.callsign # NULL /\ f.dir = toLowerCase(session.callsign)

C31_OwnerFilesIsolated == [][C31_OwnFilesStep]_vars

(***************************************************************************)
(* C32: the rights of a request are those of the user's row at the time of *)
(* the request, not those at login.  With any token of a user whose admin  *)
(* flag is clear, whenever it was cleared, an admin route answers 403; and *)
(* with any token of a non-admin user whose callsign is now Y, a           *)
(* callsign-scoped route is denied for every other callsign, the former    *)
(* one included, and passes the guard for Y.                               *)
(***************************************************************************)
C32_PrivilegeStep ==
  LET req == last'.req
      rows == {u \in users : \E s \in sessions :
                 /\ s.token = req.token
                 /\ s.user_id = u.id
                 /\ TextGreater(s.expires_at, datetime(clock))} IN
  /\ (last = NoResponse /\ last'.op \in AdminOps)
       => \A u \in rows : ~u.is_admin => last'.status = 403
  /\ (last = NoResponse /\ last'.op \in ScopedRoutes)
       => \A u \in rows : ~u.is_admin =>
            (GuardAnswer(last') <=> u.callsign # toLowerCase(req.callsign))

C32_PrivilegeChangesApplyAtOnce == [][C32_PrivilegeStep]_vars

\* b logged in while bound to x; the admin moved b to y; b's token now passes
\* the guard for y
C32_Witness ==
  /\ last.op \in ScopedRoutes
  /\ last.req.callsign = <<"Y">>
  /\ ~GuardAnswer(last)
  /\ last.status # 401
  /\ validateSession(last.req.token) # NoSession
  /\ validateSession(last.req.token).username = <<"b">>
  /\ validateSession(last.req.token).callsign = <<"y">>
  /\ \E k \in 1..Len(callsigns) : callsigns[k].id = <<"x">>

(***************************************************************************)
(* C33: while the audit table can be written, every GET                    *)
(* /api/generator/:callsign/access with a valid session appends exactly    *)
(* one row, generator_access_denied when the guard denies and              *)
(* generator_access when it allows, and every allowed POST                 *)
(* /api/generator/:callsign/download appends exactly one card_generated    *)
(* row.                                                                    *)
(***************************************************************************)
C33_AuditStep ==
  LET req == last'.req
      session == validateSession(req.token)
      denied == GuardDenies(session, toLowerCase(req.callsign))
      appended(action) == /\ Len(audit') = Len(audit) + 1
                          /\ SubSeq(audit', 1, Len(audit)) = audit
                          /\ audit'[Len(audit')].action = action
                          /\ audit'[Len(audit')].user_id = session.user_id IN
  /\ (Answered("access") /\ session # NoSession /\ auditWritable)
       => appended(IF denied THEN "generator_access_denied" ELSE "generator_access")
  /\ (Answered("download") /\ session # NoSession /\ auditWritable /\ ~denied)
       => appended("card_generated")

C33_GeneratorUseAudited == [][C33_AuditStep]_vars

(***************************************************************************)
(* C34: PUT /api/admin/users/:id is all-or-nothing.  A request answered    *)
(* with 400, 404 or 409 leaves every user row as it was: password hash,    *)
(* callsign and admin flag of the target are unchanged, also when the body *)
(* carries a new password together with a callsign held by another user.   *)
(***************************************************************************)
C34_ErrorStep ==
  (Answered("update-user") /\ last'.status \in {400, 404, 409}) => users' = users

C34_UpdateUserAllOrNothing == [][C34_ErrorStep]_vars

(***************************************************************************)
(* C35: every user's callsign, when not null, is the id of a callsign      *)
(* config that is stored.                                                  *)
(***************************************************************************)
C35_BoundCallsignsExist ==
  \A u \in users :
    u.callsign # NULL => \E k \in 1..Len(callsigns) : callsigns[k].id = u.callsign

(***************************************************************************)
(* C36: an admin cannot delete their own account.  DELETE                  *)
(* /api/admin/users/:id with the id of the acting session's user answers   *)
(* 400 and leaves every user row and every session row as it was.          *)
(***************************************************************************)
C36_SelfDeleteStep ==
  LET session == validateSession(last'.req.token) IN
  (Answered("delete-user") /\ session # NoSession /\ session.is_admin
     /\ last'.req.id = session.user_id)
    => /\ last'.status = 400
       /\ last'.body = "Cannot delete your own account"
       /\ users' = users
       /\ sessions' = sessions

C36_NoSelfDeletion == [][C36_SelfDeleteStep]_vars

\* the admin asked to delete their own account and is still there
C36_Witness ==
  /\ last.op = "delete-user"
  /\ last.status = 400
  /\ validateSession(last.req.token) # NoSession
  /\ validateSession(last.req.token).user_id = last.req.id
  /\ Cardinality(users) > 1

(***************************************************************************)
(* C37: once there is an admin user there always is one: no request takes  *)
(* a state with at least one admin to a state with none.                   *)
(***************************************************************************)
C37_AdminRemains ==
  [][(\E u \in users : u.is_admin) => (\E u \in users' : u.is_admin)]_vars

(***************************************************************************)
(* C38: setLanguage(lang) resolves to false for an unsupported language    *)
(* and for a locale that fails to load, and the step that does so leaves   *)
(* the current language, the loaded translations and the stored preference *)
(* as they were; when it resolves to true, the current language and the    *)
(* stored preference are lang and the translations are the locale of lang. *)
(***************************************************************************)
C38_SetLanguageStep ==
  (returned = NoReturn /\ returned'.fn = "setLanguage")
    => LET lang == returned'.arg IN
       /\ returned'.value \in {"true", "false"}
       /\ lang \notin SUPPORTED_LANGS => returned'.value = "false"
       /\ returned'.value = "false"
            => /\ currentLang' = currentLang
               /\ translations' = translations
               /\ localStorage' = localStorage
       /\ returned'.value = "true"
            => /\ currentLang' = lang
               /\ translations' = Locale(lang)
               /\ localStorage' = lang
       /\ (lang \in SUPPORTED_LANGS /\ translations' = translations
             /\ translations # Locale(lang))
            => returned'.value = "false"

C38_SetLanguageAllOrNothing == [][C38_SetLanguageStep]_vars

\* after init() chose English, setLanguage("de") resolved to true
C38_Witness ==
  /\ returned = [fn |-> "setLanguage", arg |-> "de", value |-> "true"]
  /\ initialized
  /\ browserLang = "en"
  /\ currentLang = "de"
  /\ translations = Locale("de")
  /\ localStorage = "de"

(***************************************************************************)
(* C39: whenever no call of init() or setLanguage() is in progress, the    *)
(* current language is a supported language and the loaded translations    *)
(* are the locale of the current language, or the empty object.            *)
(***************************************************************************)
C39_LanguageMatchesTranslations ==
  (\A c \in CallSlots : calls[c] = NoCall)
    => /\ currentLang \in SUPPORTED_LANGS
       /\ translations \in {Locale(currentLang), EmptyObject}
====
